---- MODULE Spec2Model ----
(***************************************************************************)
(* Model of the tabular import and value-encoding layer of crm_local:      *)
(* header resolution, cell coercion, the frequency token codec, the        *)
(* workload cell codec, the import loops of app.py with the rows they      *)
(* commit, the import of a workload grid, the one-time import reports,     *)
(* the workload site and cell tables, and the stored services.             *)
(*                                                                         *)
(* Python strings are TLA+ strings; Optional[x] is the empty tuple (None)  *)
(* or the one-element tuple <<x>>.                                         *)
(***************************************************************************)
EXTENDS Integers, Sequences, FiniteSets, TLC

VARIABLES
    fpc,        \* frequency codec: position in the form / import path
    fCells,     \* frequency codec: the raw cells of the services row (import path)
    fRow,       \* frequency codec: the record parsed from fCells
    fSelection, \* frequency codec: selection handed to _resolve_frequency
    fInterval,  \* frequency codec: custom_interval (Optional[str])
    fUnit,      \* frequency codec: custom_unit (Optional[str])
    fResult,    \* frequency codec: what _resolve_frequency returned or raised
    fParsed,    \* frequency codec: (interval, unit) of _parse_interval_frequency
    fHints,     \* frequency codec: (interval, unit) hints passed to the label
    fLabel,     \* frequency codec: the label computed with fHints
    fError,     \* frequency codec: error that ended the path, "" when none
    wpc,        \* workload codec: position (raw, decoded, exported, redecoded, failed)
    wRaw,       \* workload codec: the raw cell of the sheet
    wPlace,     \* workload codec: <<row_index, column_index>> of the cell
    wDecoded,   \* workload codec: what _normalize_workload_cell_value gave for wRaw
    wExported,  \* workload codec: the cell written by the export for the token
    wRedecoded, \* workload codec: what decoding wExported gave
    iPc,        \* import: position (upload, headers, rows, loop, stored, crashed)
    iKind,      \* import: the kind of sheet (clients, services, filters, belts)
    iFilename,  \* import: file.filename of the upload
    iHeaderRow, \* import: cell.value of each cell of the first row of the sheet
    iSheet,     \* import: the data rows of the sheet (sheet row = index + 1)
    iHeaders,   \* import: headers, the resolved first row
    iRead,      \* import: number of data rows the parser has read
    iRows,      \* import: rows, the records the parser has appended
    iDone,      \* import: number of records the import loop has processed
    iCreated,   \* import: created
    iErrors,    \* import: errors
    iErrorRows, \* import: history, the sheet row each stored error is about (0: none)
    iCalls,     \* import: history, the record-creation calls made
    iReports,   \* import: the outcomes handed to _store_import_report
    sEntreprises, \* import: the committed Entreprise rows, by nom
    sClients,   \* import: the committed Client rows
    pPc,        \* workload grid: position (upload, rows, parsed, done, rejected)
    pFilename,  \* workload grid: file.filename of the upload
    pReadable,  \* workload grid: whether load_workbook can read the content
    pSheet,     \* workload grid: the data rows of the sheet (sheet row = index + 1)
    pRead,      \* workload grid: number of data rows the parser has read
    pSites,     \* workload grid: sites, in the order of the sheet
    pCells,     \* workload grid: cells_map, the tokens of each site
    pResponse,  \* workload grid: the response of import_workload_plan_excel
    pPlan,      \* workload grid: the stored plan (WorkloadSite and WorkloadCell rows)
    rReports,   \* reports: app.state.import_reports, None while the attribute is unset
    rHistory,   \* reports: history, the stores and consumes made and what they gave
    tSites,     \* workload sites: the committed WorkloadSite rows
    tCells,     \* workload sites: the committed WorkloadCell rows, number of rows of each
    tRequests,  \* workload sites: the create requests between their reads and their insert
    tResponse,  \* workload sites: the request answered last and its answer
    vServices,  \* services: the committed SubcontractedService rows, by id
    vResponse   \* services: the request answered last and its answer

fvars == <<fpc, fCells, fRow, fSelection, fInterval, fUnit, fResult, fParsed,
           fHints, fLabel, fError>>

wvars == <<wpc, wRaw, wPlace, wDecoded, wExported, wRedecoded>>

svars == <<sEntreprises, sClients>>

ivars == <<iPc, iKind, iFilename, iHeaderRow, iSheet, iHeaders, iRead, iRows,
           iDone, iCreated, iErrors, iErrorRows, iCalls, iReports,
           sEntreprises, sClients>>

pvars == <<pPc, pFilename, pReadable, pSheet, pRead, pSites, pCells, pResponse, pPlan>>

rvars == <<rReports, rHistory>>

tvars == <<tSites, tCells, tRequests, tResponse>>

vvars == <<vServices, vResponse>>

vars == <<fpc, fCells, fRow, fSelection, fInterval, fUnit, fResult, fParsed,
          fHints, fLabel, fError,
          wpc, wRaw, wPlace, wDecoded, wExported, wRedecoded,
          iPc, iKind, iFilename, iHeaderRow, iSheet, iHeaders, iRead, iRows,
          iDone, iCreated, iErrors, iErrorRows, iCalls, iReports,
          sEntreprises, sClients,
          pPc, pFilename, pReadable, pSheet, pRead, pSites, pCells, pResponse,
          pPlan, rReports, rHistory, tSites, tCells, tRequests, tResponse,
          vServices, vResponse>>

None == <<>>
Some(x) == <<x>>

----------------------------------------------------------------------------
(* Python str primitives *)

Digits == {"0", "1", "2", "3", "4", "5", "6", "7", "8", "9"}

\* str.isspace for the characters of the model (U+00A0 is white space too)
NBSP == " "
Whitespace == {" ", NBSP}

CharAt(s, i) == SubSeq(s, i, i)

RECURSIVE LStrip(_)
LStrip(s) ==
    IF Len(s) > 0 /\ CharAt(s, 1) \in Whitespace
    THEN LStrip(SubSeq(s, 2, Len(s)))
    ELSE s

RECURSIVE RStrip(_)
RStrip(s) ==
    IF Len(s) > 0 /\ CharAt(s, Len(s)) \in Whitespace
    THEN RStrip(SubSeq(s, 1, Len(s) - 1))
    ELSE s

\* str.strip()
Strip(s) == RStrip(LStrip(s))

\* str.startswith / str.endswith
StartsWith(s, p) == Len(s) >= Len(p) /\ SubSeq(s, 1, Len(p)) = p
EndsWith(s, p) == Len(s) >= Len(p) /\ SubSeq(s, Len(s) - Len(p) + 1, Len(s)) = p

\* position of the first occurrence of character c in s, 0 when absent
RECURSIVE IndexFrom(_, _, _)
IndexFrom(s, c, i) ==
    IF i > Len(s) THEN 0
    ELSE IF CharAt(s, i) = c THEN i
    ELSE IndexFrom(s, c, i + 1)

IndexOf(s, c) == IndexFrom(s, c, 1)

\* str.split(c): the sequence of the parts of s between occurrences of c
RECURSIVE SplitOn(_, _)
SplitOn(s, c) ==
    LET i == IndexOf(s, c) IN
    IF i = 0 THEN <<s>>
    ELSE <<SubSeq(s, 1, i - 1)>> \o SplitOn(SubSeq(s, i + 1, Len(s)), c)

AllDigits(s) == \A i \in 1..Len(s) : CharAt(s, i) \in Digits

DigitValue(c) ==
    CASE c = "0" -> 0 [] c = "1" -> 1 [] c = "2" -> 2 [] c = "3" -> 3
      [] c = "4" -> 4 [] c = "5" -> 5 [] c = "6" -> 6 [] c = "7" -> 7
      [] c = "8" -> 8 [] c = "9" -> 9

RECURSIVE DigitsValue(_)
DigitsValue(s) ==
    IF Len(s) = 0 THEN 0
    ELSE 10 * DigitsValue(SubSeq(s, 1, Len(s) - 1)) + DigitValue(CharAt(s, Len(s)))

\* int(s) of Python: surrounding white space and one sign are accepted;
\* None stands for ValueError
PyInt(s) ==
    LET digits(negative, body) ==
            IF Len(body) = 0 \/ ~AllDigits(body) THEN None
            ELSE IF negative THEN Some(0 - DigitsValue(body))
            ELSE Some(DigitsValue(body))
        stripped(t) ==
            IF Len(t) > 0 /\ CharAt(t, 1) \in {"+", "-"}
            THEN digits(CharAt(t, 1) = "-", SubSeq(t, 2, Len(t)))
            ELSE digits(FALSE, t)
    IN  stripped(Strip(s))

\* str(n) of a Python int
PyStrInt(n) == IF n < 0 THEN "-" \o ToString(0 - n) ELSE ToString(n)

\* cleaned[: -len(suffix)] and friends
DropLast(s, k) == SubSeq(s, 1, Len(s) - k)
DropFirst(s, k) == SubSeq(s, k + 1, Len(s))

\* str.lower on the characters of the model
UpperLetters == "ABCDEFGHIJKLMNOPQRSTUVWXYZÉÈÊÀÇÔ"
LowerLetters == "abcdefghijklmnopqrstuvwxyzéèêàçô"

LowerChar(c) ==
    LET i == IndexOf(UpperLetters, c) IN
    IF i = 0 THEN c ELSE CharAt(LowerLetters, i)

\* unicodedata.normalize("NFKD", c) with the combining marks removed
AccentedLetters == "éèêàçô"
BaseLetters == "eeeaco"

FoldChar(c) ==
    LET i == IndexOf(AccentedLetters, c) IN
    IF c = NBSP THEN " "
    ELSE IF i = 0 THEN c ELSE CharAt(BaseLetters, i)

RECURSIVE Lower(_)
Lower(s) == IF Len(s) = 0 THEN "" ELSE LowerChar(CharAt(s, 1)) \o Lower(DropFirst(s, 1))

RECURSIVE Fold(_)
Fold(s) == IF Len(s) = 0 THEN "" ELSE FoldChar(CharAt(s, 1)) \o Fold(DropFirst(s, 1))

\* str.replace(c, " ") for each c of a set of characters
RECURSIVE ReplaceWithSpace(_, _)
ReplaceWithSpace(s, cs) ==
    IF Len(s) = 0 THEN ""
    ELSE (IF CharAt(s, 1) \in cs THEN " " ELSE CharAt(s, 1))
         \o ReplaceWithSpace(DropFirst(s, 1), cs)

\* str.replace(a, b) for single characters
RECURSIVE ReplaceChar(_, _, _)
ReplaceChar(s, a, b) ==
    IF Len(s) = 0 THEN ""
    ELSE (IF CharAt(s, 1) = a THEN b ELSE CharAt(s, 1))
         \o ReplaceChar(DropFirst(s, 1), a, b)

\* length of the leading run of non-white-space characters
RECURSIVE WordLen(_)
WordLen(s) ==
    IF Len(s) = 0 \/ CharAt(s, 1) \in Whitespace THEN 0
    ELSE 1 + WordLen(DropFirst(s, 1))

\* str.split(): the words of s, white-space runs being separators
RECURSIVE Words(_)
Words(s) ==
    LET t == LStrip(s)
        n == WordLen(t)
    IN  IF Len(t) = 0 THEN <<>>
        ELSE <<SubSeq(t, 1, n)>> \o Words(DropFirst(t, n))

\* sep.join(parts)
RECURSIVE Join(_, _)
Join(parts, sep) ==
    IF Len(parts) = 0 THEN ""
    ELSE IF Len(parts) = 1 THEN parts[1]
    ELSE parts[1] \o sep \o Join(Tail(parts), sep)

\* str.lstrip(chars) / str.rstrip(chars)
RECURSIVE LStripChars(_, _)
LStripChars(s, cs) ==
    IF Len(s) > 0 /\ CharAt(s, 1) \in cs THEN LStripChars(DropFirst(s, 1), cs) ELSE s

RECURSIVE RStripChars(_, _)
RStripChars(s, cs) ==
    IF Len(s) > 0 /\ CharAt(s, Len(s)) \in cs THEN RStripChars(DropLast(s, 1), cs) ELSE s

----------------------------------------------------------------------------
(* Spreadsheet cells: None, str, int or float.  A float cell holds its     *)
(* value in units of 10^-FracDigits.                                       *)

FracDigits == 3
Scale == 10 ^ FracDigits

NoneCell == [t |-> "none", s |-> "", n |-> 0]
StrCell(s) == [t |-> "str", s |-> s, n |-> 0]
IntCell(n) == [t |-> "int", s |-> "", n |-> n]
FloatCell(m) == [t |-> "float", s |-> "", n |-> m]

\* k zeros
RECURSIVE Zeros(_)
Zeros(k) == IF k <= 0 THEN "" ELSE "0" \o Zeros(k - 1)

\* the fractional digits of m / Scale, without trailing zeros
FracText(m) ==
    LET f == m % Scale
        raw == ToString(f)
    IN  RStripChars(Zeros(FracDigits - Len(raw)) \o raw, {"0"})

\* str(value) of a Python float in the range the model covers
\* (10^-FracDigits <= |value| < 10^16, where repr uses no exponent)
PyStrFloat(m) ==
    LET a == IF m < 0 THEN 0 - m ELSE m
        frac == FracText(a)
    IN  (IF m < 0 THEN "-" ELSE "") \o ToString(a \div Scale) \o "."
        \o (IF frac = "" THEN "0" ELSE frac)

\* str(raw_value) of a cell that is not None
PyStr(cell) ==
    CASE cell.t = "str" -> cell.s
      [] cell.t = "int" -> PyStrInt(cell.n)
      [] cell.t = "float" -> PyStrFloat(cell.n)

\* importers._normalize_header
_normalize_header(header) ==
    IF header = None THEN ""
    ELSE Join(Words(ReplaceWithSpace(Fold(Lower(Strip(header[1]))),
                                     {"-", ".", "'", NBSP})), "_")

\* importers._coerce_value: Optional[str]
_coerce_value(cell) ==
    CASE cell.t = "none" -> None
      [] cell.t = "str" ->
            (IF Strip(cell.s) = "" THEN None ELSE Some(Strip(cell.s)))
      [] cell.t = "int" -> Some(PyStrInt(cell.n))
      [] cell.t = "float" ->
            IF cell.n % Scale = 0 THEN Some(PyStrInt(cell.n \div Scale))
            ELSE Some(RStripChars(RStripChars(PyStrFloat(cell.n), {"0"}), {"."}))

----------------------------------------------------------------------------
(* Python float: a decimal number num / den (den a power of ten), nan or   *)
(* inf.  Exponent notation is outside the alphabet of the model.           *)

Num(num, den) == [ok |-> TRUE, kind |-> "num", num |-> num, den |-> den]
NotANumber == [ok |-> TRUE, kind |-> "nan", num |-> 0, den |-> 1]
Infinity(sign) == [ok |-> TRUE, kind |-> "inf", num |-> sign, den |-> 1]
FloatError == [ok |-> FALSE, kind |-> "error", num |-> 0, den |-> 1]

\* float(s): white space and one sign are accepted, "4." and ".5" too
PyFloat(s) ==
    LET number(sign, whole, frac) ==
            IF Len(whole) + Len(frac) = 0 THEN FloatError
            ELSE IF ~AllDigits(whole) \/ ~AllDigits(frac) THEN FloatError
            ELSE Num(sign * (DigitsValue(whole) * (10 ^ Len(frac))
                             + DigitsValue(frac)),
                     10 ^ Len(frac))
        split(sign, body, dot) ==
            IF Lower(body) \in {"nan"} THEN NotANumber
            ELSE IF Lower(body) \in {"inf", "infinity"} THEN Infinity(sign)
            ELSE IF dot = 0 THEN number(sign, body, "")
            ELSE number(sign, SubSeq(body, 1, dot - 1), DropFirst(body, dot))
        unsigned(sign, body) == split(sign, body, IndexOf(body, "."))
        stripped(t) ==
            IF Len(t) > 0 /\ CharAt(t, 1) \in {"+", "-"}
            THEN unsigned(IF CharAt(t, 1) = "-" THEN 0 - 1 ELSE 1, DropFirst(t, 1))
            ELSE unsigned(1, t)
    IN  stripped(Strip(s))

\* float.is_integer()
IsInteger(x) == x.kind = "num" /\ x.num % x.den = 0

\* the message of the ValueError of _parse_positive_int and _parse_boolean_flag
InvalidValueMessage(row_index, field_name, value) ==
    "Ligne " \o PyStrInt(row_index) \o ": valeur de " \o field_name
    \o " invalide '" \o value \o "'."

\* mutant: quantity < 0 refused, 0 accepted
_parse_positive_int_zero_accepted(value, row_index, field_name) ==
    LET failure == [error |-> InvalidValueMessage(row_index, field_name, value),
                    value |-> 0]
        positive(quantity) ==
            IF quantity = None THEN failure
            ELSE IF quantity[1] < 0 THEN failure
            ELSE [error |-> "", value |-> quantity[1]]
        whole(parsed) ==
            IF parsed.ok /\ IsInteger(parsed)
            THEN Some(parsed.num \div parsed.den) ELSE None
    IN  IF IndexOf(value, ".") > 0 THEN positive(whole(PyFloat(value)))
        ELSE positive(PyInt(value))

\* importers._parse_positive_int: [error, value], error = "" when it returns
_parse_positive_int(value, row_index, field_name) ==
    LET failure == [error |-> InvalidValueMessage(row_index, field_name, value),
                    value |-> 0]
        positive(quantity) ==
            IF quantity = None THEN failure
            ELSE IF quantity[1] < 1 THEN failure
            ELSE [error |-> "", value |-> quantity[1]]
        whole(parsed) ==
            IF parsed.ok /\ IsInteger(parsed)
            THEN Some(parsed.num \div parsed.den) ELSE None
    IN  IF IndexOf(value, ".") > 0 THEN positive(whole(PyFloat(value)))
        ELSE positive(PyInt(value))

----------------------------------------------------------------------------
(* Frequency token codec (app.py) *)

FREQUENCY_UNITS ==
    [months |-> [singular_label |-> "mois", plural_label |-> "mois",
                 use_plural_for_one |-> FALSE],
     years  |-> [singular_label |-> "an", plural_label |-> "ans",
                 use_plural_for_one |-> TRUE]]

PREDEFINED_FREQUENCIES ==
    [contrat_annuel |->
        [label |-> "Contrat de maintenance annuel",
         interval |-> Some(1), unit |-> Some("years")],
     contrat_semestriel |->
        [label |-> "Contrat de maintenance semestriel",
         interval |-> Some(6), unit |-> Some("months")],
     contrat_trimestriel |->
        [label |-> "Contrat de maintenance trimestriel",
         interval |-> Some(3), unit |-> Some("months")],
     contrat_bimestriel |->
        [label |-> "Contrat de maintenance bimestriel",
         interval |-> Some(2), unit |-> Some("months")],
     contrat_mensuel |->
        [label |-> "Contrat de maintenance mensuel",
         interval |-> Some(1), unit |-> Some("months")],
     prestation_ponctuelle |->
        [label |-> "Prestation ponctuelle",
         interval |-> None, unit |-> None]]

CUSTOM_INTERVAL_VALUE == "custom_interval"
INTERVAL_PREFIX == "interval:"
MIN_CUSTOM_INTERVAL == 1
MAX_CUSTOM_INTERVAL == 120

\* truthiness of an Optional[str] and of an Optional[int]
TruthyStr(o) == o /= None /\ o[1] /= ""
TruthyInt(o) == o /= None /\ o[1] /= 0

\* mutant: the parts unpacked as (prefix, interval, unit)
_parse_interval_frequency_unpack_swapped(value) ==
    LET parts == SplitOn(value, ":") IN
    IF ~StartsWith(value, INTERVAL_PREFIX) THEN <<None, None>>
    ELSE IF Len(parts) /= 3 THEN <<None, None>>
    ELSE IF PyInt(parts[2]) = None THEN <<None, None>>
    ELSE <<PyInt(parts[2]), Some(parts[3])>>

\* app._parse_interval_frequency: <<Optional[int], Optional[str]>>
_parse_interval_frequency(value) ==
    LET parts == SplitOn(value, ":") IN
    IF ~StartsWith(value, INTERVAL_PREFIX) THEN <<None, None>>
    ELSE IF Len(parts) /= 3 THEN <<None, None>>
    ELSE IF PyInt(parts[3]) = None THEN <<None, None>>
    ELSE <<PyInt(parts[3]), Some(parts[2])>>

\* app._format_interval_label
_format_interval_label(interval, unit) ==
    IF unit \notin DOMAIN FREQUENCY_UNITS
    THEN "Tous les " \o PyStrInt(interval) \o " " \o unit
    ELSE LET info == FREQUENCY_UNITS[unit]
             unit_label ==
                 IF interval = 1 /\ info.use_plural_for_one THEN info.plural_label
                 ELSE IF interval = 1 THEN info.singular_label
                 ELSE info.plural_label
         IN  IF interval = 1 THEN "Tous les " \o unit_label
             ELSE "Tous les " \o PyStrInt(interval) \o " " \o unit_label

\* mutant: the catalog is consulted only when the hints give no label
_frequency_label_hints_before_catalog(frequency_value, interval, unit) ==
    IF TruthyInt(interval) /\ TruthyStr(unit)
    THEN _format_interval_label(interval[1], unit[1])
    ELSE IF frequency_value \in DOMAIN PREDEFINED_FREQUENCIES
    THEN PREDEFINED_FREQUENCIES[frequency_value].label
    ELSE LET parsed == _parse_interval_frequency(frequency_value)
             resolved_interval == IF interval = None THEN parsed[1] ELSE interval
             resolved_unit == IF ~TruthyStr(unit) THEN parsed[2] ELSE unit
         IN  IF /\ TruthyInt(resolved_interval)
                /\ resolved_unit /= None
                /\ resolved_unit[1] \in DOMAIN FREQUENCY_UNITS
             THEN _format_interval_label(resolved_interval[1], resolved_unit[1])
             ELSE frequency_value

\* app._frequency_label_from_details
_frequency_label_from_details(frequency_value, interval, unit) ==
    IF frequency_value \in DOMAIN PREDEFINED_FREQUENCIES
    THEN PREDEFINED_FREQUENCIES[frequency_value].label
    ELSE LET reparse == interval = None \/ ~TruthyStr(unit)
             parsed == _parse_interval_frequency(frequency_value)
             resolved_interval ==
                 IF reparse /\ interval = None THEN parsed[1] ELSE interval
             resolved_unit ==
                 IF reparse /\ ~TruthyStr(unit) THEN parsed[2] ELSE unit
         IN  IF /\ TruthyInt(resolved_interval)
                /\ resolved_unit /= None
                /\ resolved_unit[1] \in DOMAIN FREQUENCY_UNITS
             THEN _format_interval_label(resolved_interval[1], resolved_unit[1])
             ELSE frequency_value

FrequencyFailure(detail) ==
    [error |-> detail, token |-> "", interval |-> None, unit |-> None]

ERR_MISSING_INTERVAL == "Veuillez renseigner l'intervalle de la fréquence"
ERR_UNKNOWN_UNIT == "Unité de fréquence inconnue"
ERR_NOT_INTEGER == "L'intervalle doit être un nombre entier"
ERR_TOO_SMALL == "L'intervalle doit être supérieur ou égal à 1"
ERR_TOO_LARGE == "L'intervalle ne peut pas dépasser 120"
ERR_UNKNOWN_FREQUENCY == "Fréquence inconnue"

\* mutant: no upper limit on the custom interval
_resolve_frequency_no_upper_limit(selection, custom_interval, custom_unit) ==
    IF selection = CUSTOM_INTERVAL_VALUE
    THEN IF ~TruthyStr(custom_interval)
         THEN FrequencyFailure(ERR_MISSING_INTERVAL)
         ELSE IF custom_unit = None \/ custom_unit[1] \notin DOMAIN FREQUENCY_UNITS
         THEN FrequencyFailure(ERR_UNKNOWN_UNIT)
         ELSE IF PyInt(custom_interval[1]) = None
         THEN FrequencyFailure(ERR_NOT_INTEGER)
         ELSE LET interval_value == PyInt(custom_interval[1])[1] IN
              IF interval_value < MIN_CUSTOM_INTERVAL
              THEN FrequencyFailure(ERR_TOO_SMALL)
              ELSE [error |-> "",
                    token |-> INTERVAL_PREFIX \o custom_unit[1] \o ":"
                              \o PyStrInt(interval_value),
                    interval |-> Some(interval_value),
                    unit |-> custom_unit]
    ELSE IF selection \notin DOMAIN PREDEFINED_FREQUENCIES
    THEN FrequencyFailure(ERR_UNKNOWN_FREQUENCY)
    ELSE [error |-> "", token |-> selection,
          interval |-> PREDEFINED_FREQUENCIES[selection].interval,
          unit |-> PREDEFINED_FREQUENCIES[selection].unit]

\* app._resolve_frequency: [error, token, interval, unit]; error is the detail
\* of the HTTPException(400) raised, "" when the function returns
_resolve_frequency(selection, custom_interval, custom_unit) ==
    IF selection = CUSTOM_INTERVAL_VALUE
    THEN IF ~TruthyStr(custom_interval)
         THEN FrequencyFailure(ERR_MISSING_INTERVAL)
         ELSE IF custom_unit = None \/ custom_unit[1] \notin DOMAIN FREQUENCY_UNITS
         THEN FrequencyFailure(ERR_UNKNOWN_UNIT)
         ELSE IF PyInt(custom_interval[1]) = None
         THEN FrequencyFailure(ERR_NOT_INTEGER)
         ELSE LET interval_value == PyInt(custom_interval[1])[1] IN
              IF interval_value < MIN_CUSTOM_INTERVAL
              THEN FrequencyFailure(ERR_TOO_SMALL)
              ELSE IF interval_value > MAX_CUSTOM_INTERVAL
              THEN FrequencyFailure(ERR_TOO_LARGE)
              ELSE [error |-> "",
                    token |-> INTERVAL_PREFIX \o custom_unit[1] \o ":"
                              \o PyStrInt(interval_value),
                    interval |-> Some(interval_value),
                    unit |-> custom_unit]
    ELSE IF selection \notin DOMAIN PREDEFINED_FREQUENCIES
    THEN FrequencyFailure(ERR_UNKNOWN_FREQUENCY)
    ELSE [error |-> "", token |-> selection,
          interval |-> PREDEFINED_FREQUENCIES[selection].interval,
          unit |-> PREDEFINED_FREQUENCIES[selection].unit]

FREQUENCY_UNIT_ALIASES ==
    [mois |-> "months", month |-> "months", months |-> "months",
     annee |-> "years", annees |-> "years", ans |-> "years",
     year |-> "years", years |-> "years"]

ERR_FREQUENCY_REQUIRED == "La fréquence est obligatoire."
ERR_INVALID_CUSTOM == "Fréquence personnalisée invalide."
ERR_HINTS_REQUIRED ==
    "Indiquez l'intervalle et l'unité pour la fréquence personnalisée."

PreparedFailure(message) ==
    [error |-> message, selection |-> "", interval |-> None, unit |-> None]

\* mutant: the hint columns of the row win over the token of the cell
_prepare_import_frequency_hints_first(row) ==
    LET raw_frequency ==
            IF TruthyStr(row.frequency) THEN Strip(row.frequency[1]) ELSE ""
        parsed == _parse_interval_frequency(raw_frequency)
        interval == IF row.frequency_interval /= None
                    THEN row.frequency_interval ELSE parsed[1]
        unit == IF TruthyStr(row.frequency_unit) THEN row.frequency_unit ELSE parsed[2]
    IN  IF raw_frequency = "" THEN PreparedFailure(ERR_FREQUENCY_REQUIRED)
        ELSE IF StartsWith(raw_frequency, INTERVAL_PREFIX)
                \/ raw_frequency = CUSTOM_INTERVAL_VALUE
        THEN IF ~TruthyInt(interval) \/ ~TruthyStr(unit)
             THEN PreparedFailure(ERR_INVALID_CUSTOM)
             ELSE [error |-> "", selection |-> CUSTOM_INTERVAL_VALUE,
                   interval |-> Some(PyStrInt(interval[1])), unit |-> unit]
        ELSE [error |-> "", selection |-> raw_frequency,
              interval |-> None, unit |-> None]

\* app._prepare_import_frequency: [error, selection, interval, unit]; error is
\* the message of the ValueError raised, "" when the function returns.
\* row: [frequency: Optional[str], frequency_interval: Optional[int],
\*       frequency_unit: Optional[str]]
_prepare_import_frequency(row) ==
    LET raw_frequency ==
            IF TruthyStr(row.frequency) THEN Strip(row.frequency[1]) ELSE ""
        parsed == _parse_interval_frequency(raw_frequency)
    IN  IF raw_frequency = "" THEN PreparedFailure(ERR_FREQUENCY_REQUIRED)
        ELSE IF StartsWith(raw_frequency, INTERVAL_PREFIX)
        THEN IF ~TruthyInt(parsed[1]) \/ ~TruthyStr(parsed[2])
             THEN PreparedFailure(ERR_INVALID_CUSTOM)
             ELSE [error |-> "", selection |-> CUSTOM_INTERVAL_VALUE,
                   interval |-> Some(PyStrInt(parsed[1][1])), unit |-> parsed[2]]
        ELSE IF raw_frequency = CUSTOM_INTERVAL_VALUE
        THEN IF row.frequency_interval = None \/ ~TruthyStr(row.frequency_unit)
             THEN PreparedFailure(ERR_HINTS_REQUIRED)
             ELSE [error |-> "", selection |-> CUSTOM_INTERVAL_VALUE,
                   interval |-> Some(PyStrInt(row.frequency_interval[1])),
                   unit |-> row.frequency_unit]
        ELSE [error |-> "", selection |-> raw_frequency,
              interval |-> None, unit |-> None]

----------------------------------------------------------------------------
(* Services sheet (importers.parse_prestations_excel) *)

PRESTATION_COLUMN_ALIASES ==
    [company_name |-> "company_name", entreprise |-> "company_name",
     societe |-> "company_name", raison_sociale |-> "company_name",
     client |-> "client_name", client_name |-> "client_name",
     contact |-> "client_name", nom_client |-> "client_name",
     prestation |-> "prestation", prestation_key |-> "prestation",
     libelle |-> "prestation_label", prestation_label |-> "prestation_label",
     budget |-> "budget", montant |-> "budget",
     frequency |-> "frequency", frequence |-> "frequency",
     intervalle |-> "frequency_interval",
     frequency_interval |-> "frequency_interval",
     frequency_unit |-> "frequency_unit", unite |-> "frequency_unit",
     client_id |-> "client_id",
     status |-> "status", statut |-> "status",
     order_week |-> "order_week", commande |-> "order_week",
     semaine_commande |-> "order_week",
     realization_week |-> "realization_week",
     realisation_week |-> "realization_week",
     semaine_realisation |-> "realization_week"]

\* HeaderType: "" (unresolved), a canonical field, or ("contact", index, field)
Unresolved == [kind |-> "none", field |-> "", index |-> 0]
Direct(field) == [kind |-> "direct", field |-> field, index |-> 0]
Grouped(index, field) == [kind |-> "contact", field |-> field, index |-> index]

\* aliases.get(header, "")
AliasLookup(aliases, header) ==
    IF header \in DOMAIN aliases THEN Direct(aliases[header]) ELSE Unresolved

\* importers._resolve_prestation_header
_resolve_prestation_header(header) == AliasLookup(PRESTATION_COLUMN_ALIASES, header)

\* record = {"__row__": row_index}: an absent key is None
NewPrestationRecord(row_index) ==
    [row_number |-> row_index,
     company_name |-> None, client_name |-> None, prestation |-> None,
     prestation_label |-> None, budget |-> None, frequency |-> None,
     frequency_interval |-> None, frequency_unit |-> None, client_id |-> None,
     status |-> None, order_week |-> None, realization_week |-> None]

\* one populated cell of a services row: [error, record]
PrestationCell(record, header, value, row_index) ==
    LET set(v) == [error |-> "", record |-> [record EXCEPT ![header] = Some(v)]]
        parsed(result) ==
            [error |-> result.error,
             record |-> [record EXCEPT ![header] = Some(result.value)]]
        unit(normalized) ==
            IF normalized \in DOMAIN FREQUENCY_UNIT_ALIASES
            THEN FREQUENCY_UNIT_ALIASES[normalized] ELSE normalized
    IN  CASE header \in {"frequency", "status"} ->
                set(_normalize_header(Some(value)))
          [] header = "frequency_unit" ->
                set(unit(_normalize_header(Some(value))))
          [] header \in {"company_name", "client_name", "prestation_label",
                         "prestation"} ->
                set(Strip(value))
          [] header = "client_id" ->
                parsed(_parse_positive_int(value, row_index, "identifiant client"))
          [] header = "frequency_interval" ->
                parsed(_parse_positive_int(value, row_index,
                                           "intervalle de fréquence"))
          [] OTHER -> set(value)

----------------------------------------------------------------------------
(* Clients, filters and belts sheets: headers and cells                    *)

EXPECTED_FIELDS == {"company_name", "name"}

COLUMN_ALIASES ==
    [company_name |-> "company_name", entreprise |-> "company_name",
     nom_entreprise |-> "company_name", societe |-> "company_name",
     raison_sociale |-> "company_name",
     name |-> "name", client |-> "name", nom_client |-> "name",
     contact |-> "name",
     email |-> "email", mail |-> "email", courriel |-> "email",
     phone |-> "phone", telephone |-> "phone", tel |-> "phone",
     technician_name |-> "technician_name", technicien |-> "technician_name",
     technicien_referent |-> "technician_name", referent |-> "technician_name",
     billing_address |-> "billing_address", adresse |-> "billing_address",
     adresse_facturation |-> "billing_address",
     depannage |-> "depannage", type_depannage |-> "depannage",
     astreinte |-> "astreinte",
     tags |-> "tags", tag |-> "tags",
     status |-> "status", statut |-> "status"]

CONTACT_FIELD_ALIASES ==
    [name |-> "name", nom |-> "name", prenom |-> "name", nom_complet |-> "name",
     email |-> "email", mail |-> "email", courriel |-> "email",
     phone |-> "phone", telephone |-> "phone", tel |-> "phone",
     mobile |-> "phone",
     description |-> "description", notes |-> "description",
     commentaire |-> "description"]

STATUS_ALIASES ==
    [actif |-> "actif", active |-> "actif", oui |-> "actif", true |-> "actif",
     inactif |-> "inactif", inactive |-> "inactif", non |-> "inactif",
     false |-> "inactif"]
    @@ ("1" :> "actif") @@ ("0" :> "inactif")

DEPANNAGE_CHOICES == {"refacturable", "non_refacturable"}
ASTREINTE_CHOICES ==
    {"incluse_non_refacturable", "incluse_refacturable", "pas_d_astreinte"}

BOOLEAN_TRUE_VALUES == {"oui", "o", "yes", "y", "true", "vrai", "1"}
BOOLEAN_FALSE_VALUES == {"non", "no", "n", "false", "faux", "0"}

FILTER_EXPECTED_FIELDS == {"site", "equipment", "format_type"}

FILTER_COLUMN_ALIASES ==
    [site |-> "site", lieu |-> "site",
     equipement |-> "equipment", equipment |-> "equipment",
     machine |-> "equipment",
     format |-> "format_type", format_type |-> "format_type",
     type |-> "format_type",
     efficacite |-> "efficiency", efficiency |-> "efficiency",
     classe |-> "efficiency",
     dimensions |-> "dimensions", dimension |-> "dimensions",
     taille |-> "dimensions",
     quantite |-> "quantity", quantity |-> "quantity", qte |-> "quantity",
     commande |-> "order_week", semaine_commande |-> "order_week",
     order_week |-> "order_week", semaine |-> "order_week",
     inclus |-> "included_in_contract", inclus_contrat |-> "included_in_contract",
     included |-> "included_in_contract",
     included_in_contract |-> "included_in_contract",
     etat_commande |-> "ordered", statut_commande |-> "ordered",
     commande_effectuee |-> "ordered", ordered |-> "ordered",
     poches |-> "pocket_count", nb_poches |-> "pocket_count",
     pocket_count |-> "pocket_count"]

FILTER_FORMAT_LOOKUP ==
    [cousus_sur_fil |-> "cousus_sur_fil", format_cousus_sur_fil |-> "cousus_sur_fil",
     cadre |-> "cadre", format_cadre |-> "cadre",
     multi_diedre |-> "multi_diedre", format_multi_diedre |-> "multi_diedre",
     poche |-> "poche", format_poche |-> "poche"]

BELT_EXPECTED_FIELDS == {"site", "equipment", "reference"}

BELT_COLUMN_ALIASES ==
    [site |-> "site", lieu |-> "site",
     equipement |-> "equipment", equipment |-> "equipment",
     machine |-> "equipment",
     reference |-> "reference", ref |-> "reference", code |-> "reference",
     quantite |-> "quantity", quantity |-> "quantity", qte |-> "quantity",
     commande |-> "order_week", semaine_commande |-> "order_week",
     order_week |-> "order_week", semaine |-> "order_week",
     inclus |-> "included_in_contract", inclus_contrat |-> "included_in_contract",
     included |-> "included_in_contract",
     included_in_contract |-> "included_in_contract",
     etat_commande |-> "ordered", statut_commande |-> "ordered",
     commande_effectuee |-> "ordered", ordered |-> "ordered"]

\* the characters of the class [a-z0-9_]
WordChars ==
    {CharAt("abcdefghijklmnopqrstuvwxyz0123456789_", i) : i \in 1..37}

\* length of the longest prefix of s made of characters of cs
RECURSIVE PrefixLen(_, _)
PrefixLen(s, cs) ==
    IF Len(s) = 0 \/ CharAt(s, 1) \notin cs THEN 0
    ELSE 1 + PrefixLen(DropFirst(s, 1), cs)

\* CONTACT_HEADER_RE.match(header): contact_?(\d+)_([a-z0-9_]+) matched at
\* the start of header; None, or the groups [index, field_key]
CONTACT_HEADER_RE(header) ==
    IF ~StartsWith(header, "contact") THEN None
    ELSE LET tail == DropFirst(header, 7)
             rest == IF StartsWith(tail, "_") THEN DropFirst(tail, 1) ELSE tail
             digits == PrefixLen(rest, Digits)
             after == DropFirst(rest, digits)
             key == PrefixLen(DropFirst(after, 1), WordChars)
         IN  IF digits >= 1 /\ StartsWith(after, "_") /\ key >= 1
             THEN Some([index |-> DigitsValue(SubSeq(rest, 1, digits)),
                        field_key |-> SubSeq(after, 2, key + 1)])
             ELSE None

\* importers._resolve_header
_resolve_header(header) ==
    LET grouped(match) ==
            IF match /= None /\ match[1].field_key \in DOMAIN CONTACT_FIELD_ALIASES
            THEN Grouped(match[1].index, CONTACT_FIELD_ALIASES[match[1].field_key])
            ELSE Unresolved
    IN  IF header \in DOMAIN COLUMN_ALIASES THEN Direct(COLUMN_ALIASES[header])
        ELSE grouped(CONTACT_HEADER_RE(header))

\* importers._resolve_filter_header
_resolve_filter_header(header) == AliasLookup(FILTER_COLUMN_ALIASES, header)

\* importers._resolve_belt_header
_resolve_belt_header(header) == AliasLookup(BELT_COLUMN_ALIASES, header)

\* importers._parse_boolean_flag: [error, value]
_parse_boolean_flag(value, row_index, field_name) ==
    LET flag(normalized) ==
            IF normalized \in BOOLEAN_TRUE_VALUES THEN [error |-> "", value |-> TRUE]
            ELSE IF normalized \in BOOLEAN_FALSE_VALUES
            THEN [error |-> "", value |-> FALSE]
            ELSE [error |-> InvalidValueMessage(row_index, field_name, value),
                  value |-> FALSE]
    IN  flag(_normalize_header(Some(value)))

\* str.upper
UpperChar(c) ==
    IF \E i \in 1..Len(LowerLetters) : CharAt(LowerLetters, i) = c
    THEN LET i == CHOOSE i \in 1..Len(LowerLetters) : CharAt(LowerLetters, i) = c
         IN  CharAt(UpperLetters, i)
    ELSE c

RECURSIVE Upper(_)
Upper(s) == IF Len(s) = 0 THEN "" ELSE UpperChar(CharAt(s, 1)) \o Upper(DropFirst(s, 1))

\* record = {"__row__": row_index} of a clients row; contacts_map is
\* record["__contacts__"], contacts the list built from it
NewClientRecord(row_index) ==
    [row_number |-> row_index,
     company_name |-> None, name |-> None, email |-> None, phone |-> None,
     technician_name |-> None, billing_address |-> None, depannage |-> None,
     astreinte |-> None, tags |-> None, status |-> None,
     contacts_map |-> <<>>, contacts |-> <<>>]

NewContactData ==
    [name |-> None, email |-> None, phone |-> None, description |-> None]

\* contact_bucket.setdefault(contact_index, {})[contact_field] = value
SetContactField(bucket, contact_index, contact_field, value) ==
    LET data == IF contact_index \in DOMAIN bucket THEN bucket[contact_index]
                ELSE NewContactData
        known == [i \in DOMAIN bucket \cup {contact_index} |->
                    IF i \in DOMAIN bucket THEN bucket[i] ELSE data]
    IN  [known EXCEPT ![contact_index] = [data EXCEPT ![contact_field] = Some(value)]]

\* one populated cell of a clients row: [error, record]
ClientCell(record, header, value, row_index) ==
    LET kept == [error |-> "", record |-> record]
        set(v) == [error |-> "", record |-> [record EXCEPT ![header.field] = v]]
        status(normalized) ==
            IF normalized \in DOMAIN STATUS_ALIASES
            THEN Some(STATUS_ALIASES[normalized])
            ELSE IF normalized /= "" THEN Some(normalized) ELSE None
        choice(normalized, choices, label) ==
            IF normalized /= "" /\ normalized \notin choices
            THEN [error |-> "Ligne " \o PyStrInt(row_index) \o ": valeur "
                            \o label \o " invalide '" \o value \o "'.",
                  record |-> record]
            ELSE IF normalized /= "" THEN set(Some(normalized)) ELSE kept
    IN  CASE header.kind = "contact" ->
                [error |-> "",
                 record |-> [record EXCEPT !.contacts_map =
                    SetContactField(@, header.index, header.field, value)]]
          [] header.kind /= "contact" /\ header.field = "status" ->
                set(status(_normalize_header(Some(value))))
          [] header.kind /= "contact" /\ header.field = "depannage" ->
                choice(_normalize_header(Some(value)), DEPANNAGE_CHOICES,
                       "de dépannage")
          [] header.kind /= "contact" /\ header.field = "astreinte" ->
                choice(_normalize_header(Some(value)), ASTREINTE_CHOICES,
                       "d'astreinte")
          [] OTHER -> set(Some(value))

\* record = {"__row__": row_index} of a filters row
NewFilterRecord(row_index) ==
    [row_number |-> row_index,
     site |-> None, equipment |-> None, format_type |-> None,
     efficiency |-> None, dimensions |-> None, quantity |-> None,
     order_week |-> None, included_in_contract |-> None, ordered |-> None,
     pocket_count |-> None]

\* the branches shared by the filters and the belts cell loops: [error, record]
LineCell(record, header, value, row_index) ==
    LET set(v) == [error |-> "", record |-> [record EXCEPT ![header] = Some(v)]]
        parsed(result) ==
            [error |-> result.error,
             record |-> [record EXCEPT ![header] = Some(result.value)]]
    IN  CASE header = "quantity" ->
                parsed(_parse_positive_int(value, row_index, "quantité"))
          [] header = "order_week" -> set(Upper(Strip(value)))
          [] header = "included_in_contract" ->
                parsed(_parse_boolean_flag(value, row_index, "inclus au contrat"))
          [] header = "ordered" ->
                parsed(_parse_boolean_flag(value, row_index, "commandé"))
          [] OTHER -> set(value)

\* one populated cell of a filters row: [error, record]
FilterCell(record, header, value, row_index) ==
    LET format(normalized) ==
            IF normalized \in DOMAIN FILTER_FORMAT_LOOKUP
            THEN [error |-> "",
                  record |-> [record EXCEPT ![header] =
                                Some(FILTER_FORMAT_LOOKUP[normalized])]]
            ELSE [error |-> "Ligne " \o PyStrInt(row_index)
                            \o ": format de filtre inconnu '" \o value \o "'.",
                  record |-> record]
        parsed(result) ==
            [error |-> result.error,
             record |-> [record EXCEPT ![header] = Some(result.value)]]
    IN  CASE header = "format_type" -> format(_normalize_header(Some(value)))
          [] header = "pocket_count" ->
                parsed(_parse_positive_int(value, row_index, "nombre de poches"))
          [] OTHER -> LineCell(record, header, value, row_index)

\* record = {"__row__": row_index} of a belts row
NewBeltRecord(row_index) ==
    [row_number |-> row_index,
     site |-> None, equipment |-> None, reference |-> None, quantity |-> None,
     order_week |-> None, included_in_contract |-> None, ordered |-> None]

\* one populated cell of a belts row: [error, record]
BeltCell(record, header, value, row_index) ==
    LineCell(record, header, value, row_index)

ImportKinds == {"clients", "services", "filters", "belts"}

\* the branch of the cell loop of the parser of one kind of sheet
RowCell(kind, record, header, value, row_index) ==
    CASE kind = "clients" -> ClientCell(record, header, value, row_index)
      [] kind = "services" -> PrestationCell(record, header.field, value, row_index)
      [] kind = "filters" -> FilterCell(record, header.field, value, row_index)
      [] kind = "belts" -> BeltCell(record, header.field, value, row_index)

\* the cell loop of one row, from column idx on: [error, empty, record];
\* a raised ValueError ends the loop
RECURSIVE RowCells(_, _, _, _, _, _)
RowCells(kind, headers, row, idx, row_index, acc) ==
    LET filled(cell) ==
            RowCells(kind, headers, row, idx + 1, row_index,
                     [error |-> cell.error, empty |-> FALSE, record |-> cell.record])
        column(header, value) ==
            IF header.kind = "none" \/ value = None
            THEN RowCells(kind, headers, row, idx + 1, row_index, acc)
            ELSE filled(RowCell(kind, acc.record, header, value[1], row_index))
    IN  IF idx > Len(row) \/ acc.error /= "" THEN acc
        ELSE column(IF idx <= Len(headers) THEN headers[idx] ELSE Unresolved,
                    _coerce_value(row[idx]))

ERR_PRESTATION_REQUIRED(row_index) ==
    "Ligne " \o PyStrInt(row_index)
    \o ": veuillez renseigner la colonne prestation ou libellé."
ERR_CLIENT_REFERENCE_REQUIRED(row_index) ==
    "Ligne " \o PyStrInt(row_index)
    \o ": renseignez le nom d'entreprise, le contact client ou l'identifiant client."

\* the body of the row loop of parse_prestations_excel:
\* [outcome \in {"skip", "error", "record"}, error, record]
PrestationRow(headers, row, row_index) ==
    LET failed(record, message) ==
            [outcome |-> "error", error |-> message, record |-> record]
        required(record) ==
            IF ~TruthyStr(record.prestation) /\ ~TruthyStr(record.prestation_label)
            THEN failed(record, ERR_PRESTATION_REQUIRED(row_index))
            ELSE IF /\ ~TruthyInt(record.client_id)
                    /\ ~TruthyStr(record.company_name)
                    /\ ~TruthyStr(record.client_name)
            THEN failed(record, ERR_CLIENT_REFERENCE_REQUIRED(row_index))
            ELSE [outcome |-> "record", error |-> "", record |-> record]
        parsed(cells) ==
            IF cells.error /= "" THEN failed(cells.record, cells.error)
            ELSE IF cells.empty
            THEN [outcome |-> "skip", error |-> "", record |-> cells.record]
            ELSE required(cells.record)
    IN  parsed(RowCells("services", headers, row, 1, row_index,
                        [error |-> "", empty |-> TRUE,
                         record |-> NewPrestationRecord(row_index)]))

----------------------------------------------------------------------------
(* The parsers of the four row-based sheets: upfront header checks and the *)
(* body of the row loop                                                    *)

\* the _resolve_*_header of each parser
ResolveHeader(kind, header) ==
    CASE kind = "clients" -> _resolve_header(header)
      [] kind = "services" -> _resolve_prestation_header(header)
      [] kind = "filters" -> _resolve_filter_header(header)
      [] kind = "belts" -> _resolve_belt_header(header)

\* the required fields each parser checks the headers for;
\* parse_prestations_excel has no such check
RequiredFields(kind) ==
    CASE kind = "clients" -> EXPECTED_FIELDS
      [] kind = "services" -> {}
      [] kind = "filters" -> FILTER_EXPECTED_FIELDS
      [] kind = "belts" -> BELT_EXPECTED_FIELDS

\* the canonical field names in the order of sorted()
SortedFieldNames ==
    <<"company_name", "equipment", "format_type", "name", "reference", "site">>

\* ", ".join(sorted(fields))
JoinSorted(fields) ==
    Join(SelectSeq(SortedFieldNames, LAMBDA f : f \in fields), ", ")

ERR_NO_VALID_HEADERS == "Le fichier ne contient pas d'en-têtes valides."
ERR_MISSING_COLUMNS(missing) ==
    "Colonnes obligatoires manquantes: " \o JoinSorted(missing)

\* headers = [_resolve_*_header(_normalize_header(cell.value)) ...]
ResolveHeaders(kind, header_row) ==
    [i \in 1..Len(header_row) |->
        ResolveHeader(kind, _normalize_header(header_row[i]))]

\* CheckHeaders with the check of the required columns left out
CheckHeaders_any_header_only(kind, headers) ==
    IF ~(\E i \in 1..Len(headers) : headers[i].kind /= "none")
    THEN ERR_NO_VALID_HEADERS
    ELSE ""

\* the two upfront checks of a parser on the resolved headers: the message
\* of the ValueError raised, "" when the parser goes on to the rows
CheckHeaders(kind, headers) ==
    LET covered == {headers[i].field :
                        i \in {j \in 1..Len(headers) : headers[j].kind = "direct"}}
        missing == RequiredFields(kind) \ covered
    IN  IF ~(\E i \in 1..Len(headers) : headers[i].kind /= "none")
        THEN ERR_NO_VALID_HEADERS
        ELSE IF missing /= {} THEN ERR_MISSING_COLUMNS(missing)
        ELSE ""

\* the contacts of a clients row, by increasing index: [error, contacts]
RECURSIVE ClientContacts(_, _, _, _)
ClientContacts(contacts_map, orders, row_index, acc) ==
    LET contact(order, data) ==
            IF TruthyStr(data.name)
            THEN ClientContacts(contacts_map, orders \ {order}, row_index,
                    [acc EXCEPT !.contacts = Append(@, data)])
            ELSE IF TruthyStr(data.email) \/ TruthyStr(data.phone)
            THEN [acc EXCEPT !.error =
                    "Ligne " \o PyStrInt(row_index) \o ": le contact "
                    \o PyStrInt(order) \o " doit avoir un nom."]
            ELSE ClientContacts(contacts_map, orders \ {order}, row_index, acc)
        first(order) == contact(order, contacts_map[order])
    IN  IF orders = {} \/ acc.error /= "" THEN acc
        ELSE first(CHOOSE o \in orders : \A p \in orders : o <= p)

\* the body of the row loop of parse_clients_excel; field_order is the
\* iteration order of the set EXPECTED_FIELDS
ClientRow(headers, row, row_index, field_order) ==
    LET failed(record, message) ==
            [outcome |-> "error", error |-> message, record |-> record]
        grouped(record, contacts) ==
            IF contacts.error /= "" THEN failed(record, contacts.error)
            ELSE [outcome |-> "record", error |-> "",
                  record |-> [record EXCEPT !.contacts_map = <<>>,
                                            !.contacts = contacts.contacts]]
        required(record, missing_fields) ==
            IF missing_fields /= <<>>
            THEN failed(record,
                        "Ligne " \o PyStrInt(row_index)
                        \o ": valeurs manquantes pour " \o Join(missing_fields, ", "))
            ELSE IF /\ TruthyStr(record.status)
                    /\ record.status[1] \notin
                            {STATUS_ALIASES[a] : a \in DOMAIN STATUS_ALIASES}
            THEN failed(record,
                        "Ligne " \o PyStrInt(row_index) \o ": statut inconnu '"
                        \o record.status[1]
                        \o "'. Valeurs acceptées: actif, inactif.")
            ELSE grouped(record,
                         ClientContacts(record.contacts_map,
                                        DOMAIN record.contacts_map, row_index,
                                        [error |-> "", contacts |-> <<>>]))
        checked(record) ==
            required(record, SelectSeq(field_order, LAMBDA f : ~TruthyStr(record[f])))
        parsed(cells) ==
            IF cells.error /= "" THEN failed(cells.record, cells.error)
            ELSE IF cells.empty
            THEN [outcome |-> "skip", error |-> "", record |-> cells.record]
            ELSE checked(cells.record)
    IN  parsed(RowCells("clients", headers, row, 1, row_index,
                        [error |-> "", empty |-> TRUE,
                         record |-> NewClientRecord(row_index)]))

\* the message of a filters or belts row without a required field: the
\* literal is not an f-string, {row_index} stays as written
ERR_MISSING_REQUIRED(missing_fields) ==
    "Ligne {row_index}: champ(s) obligatoire(s) manquant(s): "
    \o JoinSorted(missing_fields)

\* if field not in record: record[field] = value
WithDefault(record, field, value) ==
    IF record[field] = None THEN [record EXCEPT ![field] = Some(value)] ELSE record

\* the defaults of quantity, included_in_contract and ordered
LineDefaults(record) ==
    WithDefault(WithDefault(WithDefault(record, "quantity", 1),
                            "included_in_contract", FALSE), "ordered", FALSE)

\* the body of the row loop of parse_filter_lines_excel
FilterRow(headers, row, row_index) ==
    LET failed(record, message) ==
            [outcome |-> "error", error |-> message, record |-> record]
        pockets(record, filled) ==
            IF filled.format_type = Some("poche") /\ filled.pocket_count = None
            THEN failed(record,
                        "Ligne " \o PyStrInt(row_index)
                        \o ": indiquez le nombre de poches pour un filtre au format poche.")
            ELSE [outcome |-> "record", error |-> "",
                  record |-> IF filled.format_type /= Some("poche")
                             THEN [filled EXCEPT !.pocket_count = None]
                             ELSE filled]
        required(record, missing_fields) ==
            IF missing_fields /= {}
            THEN failed(record, ERR_MISSING_REQUIRED(missing_fields))
            ELSE pockets(record, LineDefaults(record))
        parsed(cells) ==
            IF cells.error /= "" THEN failed(cells.record, cells.error)
            ELSE IF cells.empty
            THEN [outcome |-> "skip", error |-> "", record |-> cells.record]
            ELSE required(cells.record,
                          {f \in FILTER_EXPECTED_FIELDS : ~TruthyStr(cells.record[f])})
    IN  parsed(RowCells("filters", headers, row, 1, row_index,
                        [error |-> "", empty |-> TRUE,
                         record |-> NewFilterRecord(row_index)]))

\* the body of the row loop of parse_belt_lines_excel
BeltRow(headers, row, row_index) ==
    LET failed(record, message) ==
            [outcome |-> "error", error |-> message, record |-> record]
        required(record, missing_fields) ==
            IF missing_fields /= {}
            THEN failed(record, ERR_MISSING_REQUIRED(missing_fields))
            ELSE [outcome |-> "record", error |-> "",
                  record |-> LineDefaults(record)]
        parsed(cells) ==
            IF cells.error /= "" THEN failed(cells.record, cells.error)
            ELSE IF cells.empty
            THEN [outcome |-> "skip", error |-> "", record |-> cells.record]
            ELSE required(cells.record,
                          {f \in BELT_EXPECTED_FIELDS : ~TruthyStr(cells.record[f])})
    IN  parsed(RowCells("belts", headers, row, 1, row_index,
                        [error |-> "", empty |-> TRUE,
                         record |-> NewBeltRecord(row_index)]))

\* the iteration orders a build can give the set EXPECTED_FIELDS
FieldOrders == {<<"company_name", "name">>, <<"name", "company_name">>}

\* mutant: the rows enumerated with start=1
ParsedRow_start_one(kind, headers, row, row_index, field_order) ==
    CASE kind = "clients" -> ClientRow(headers, row, row_index - 1, field_order)
      [] kind = "services" -> PrestationRow(headers, row, row_index - 1)
      [] kind = "filters" -> FilterRow(headers, row, row_index - 1)
      [] kind = "belts" -> BeltRow(headers, row, row_index - 1)

\* the body of the row loop of the parser of one kind of sheet
ParsedRow(kind, headers, row, row_index, field_order) ==
    CASE kind = "clients" -> ClientRow(headers, row, row_index, field_order)
      [] kind = "services" -> PrestationRow(headers, row, row_index)
      [] kind = "filters" -> FilterRow(headers, row, row_index)
      [] kind = "belts" -> BeltRow(headers, row, row_index)

----------------------------------------------------------------------------
(* Frequency codec: the form path (selection, interval, unit posted by a   *)
(* form) and the import path (a services row, parsed, prepared, resolved)  *)

FormSelections ==
    DOMAIN PREDEFINED_FREQUENCIES \cup {CUSTOM_INTERVAL_VALUE, "hebdomadaire", ""}

IntervalTexts ==
    {PyStrInt(n) : n \in (MIN_CUSTOM_INTERVAL - 1)..(MAX_CUSTOM_INTERVAL + 1)}

FormIntervals ==
    {None} \cup {Some(t) : t \in IntervalTexts}
    \cup {Some(t) : t \in {"", "abc", "1.5", " 7 ", "+12", "007", "-3", "12a", "999"}}

FormUnits ==
    {None, Some("months"), Some("years"), Some("weeks"), Some(""),
     Some("Months"), Some("mois")}

FrequencySheetHeaders == <<"Client", "Prestation", "Fréquence", "Intervalle", "Unité">>

\* headers = [_resolve_prestation_header(_normalize_header(cell.value)) ...]
FrequencySheetResolved ==
    [i \in 1..Len(FrequencySheetHeaders) |->
        _resolve_prestation_header(_normalize_header(Some(FrequencySheetHeaders[i])))]

CustomTokens ==
    {INTERVAL_PREFIX \o u \o ":" \o t : u \in DOMAIN FREQUENCY_UNITS, t \in IntervalTexts}

FrequencyCells ==
    {StrCell(t) : t \in CustomTokens}
    \cup {StrCell(k) : k \in DOMAIN PREDEFINED_FREQUENCIES}
    \cup {StrCell(t) : t \in {CUSTOM_INTERVAL_VALUE, "Interval:Months:3",
                              "interval:weeks:3", "interval:months",
                              "interval::3", "interval:months:x",
                              " interval:years:2 ", "Contrat Annuel"}}
    \cup {NoneCell}

\* (interval, unit) hint cells of a services row
HintCells ==
    {<<NoneCell, NoneCell>>,
     <<IntCell(5), NoneCell>>,
     <<NoneCell, StrCell("Mois")>>,
     <<FloatCell(2 * Scale), StrCell("Années")>>,
     <<StrCell("7"), StrCell("weeks")>>,
     <<IntCell(0), StrCell("years")>>,
     <<StrCell("abc"), NoneCell>>}

\* the (frequency, interval, unit) cells of the services rows of the model:
\* every custom token without hints and with conflicting hints, and a few
\* frequency cells with every hint pair
FrequencyRowCells ==
    {<<f, h[1], h[2]>> :
        f \in FrequencyCells,
        h \in {<<NoneCell, NoneCell>>, <<FloatCell(2 * Scale), StrCell("Années")>>}}
    \cup
    {<<f, h[1], h[2]>> :
        f \in {StrCell("interval:months:12"), StrCell("interval:years:1"),
               StrCell(CUSTOM_INTERVAL_VALUE), StrCell("contrat_annuel")},
        h \in HintCells}

FrequencyIdle ==
    /\ fpc = "idle"
    /\ fCells = <<>>
    /\ fRow = None
    /\ fSelection = ""
    /\ fInterval = None
    /\ fUnit = None
    /\ fResult = FrequencyFailure("")
    /\ fParsed = <<None, None>>
    /\ fHints = <<None, None>>
    /\ fLabel = ""
    /\ fError = ""

InitFrequency ==
    /\ fRow = None
    /\ fResult = FrequencyFailure("")
    /\ fParsed = <<None, None>>
    /\ fHints = <<None, None>>
    /\ fLabel = ""
    /\ fError = ""
    /\ \/ /\ fpc = "form"
          /\ fCells = <<>>
          /\ fSelection \in FormSelections
          /\ fInterval \in IF fSelection = CUSTOM_INTERVAL_VALUE
                           THEN FormIntervals ELSE {None, Some("3")}
          /\ fUnit \in IF fSelection = CUSTOM_INTERVAL_VALUE
                       THEN FormUnits ELSE {None, Some("years")}
       \/ /\ fpc = "sheet"
          /\ \E c \in FrequencyRowCells :
                fCells = <<StrCell("Dupont"), StrCell("nettoyage"), c[1], c[2], c[3]>>
          /\ fSelection = ""
          /\ fInterval = None
          /\ fUnit = None

\* parse_prestations_excel on the first data row (sheet row 2)
ParsePrestationRow ==
    /\ fpc = "sheet"
    /\ LET parsed == PrestationRow(FrequencySheetResolved, fCells, 2)
       IN  IF parsed.outcome = "record"
           THEN /\ fRow' = Some(parsed.record)
                /\ fpc' = "row"
                /\ fError' = fError
           ELSE /\ fRow' = fRow
                /\ fpc' = "failed"
                /\ fError' = parsed.error
    /\ UNCHANGED <<fCells, fSelection, fInterval, fUnit, fResult, fParsed, fHints, fLabel>>

\* import_subcontracted_services: _prepare_import_frequency(row)
PrepareImportFrequency ==
    /\ fpc = "row"
    /\ LET prepared == _prepare_import_frequency(fRow[1]) IN
       IF prepared.error = ""
       THEN /\ fSelection' = prepared.selection
            /\ fInterval' = prepared.interval
            /\ fUnit' = prepared.unit
            /\ fpc' = "form"
            /\ fError' = fError
       ELSE /\ UNCHANGED <<fSelection, fInterval, fUnit>>
            /\ fpc' = "failed"
            /\ fError' = prepared.error
    /\ UNCHANGED <<fCells, fRow, fResult, fParsed, fHints, fLabel>>

\* _create_subcontracted_service_from_form / update_subcontracted_service:
\* _resolve_frequency(frequency, custom_frequency_interval, custom_frequency_unit)
ResolveFrequency ==
    /\ fpc = "form"
    /\ fResult' = _resolve_frequency(fSelection, fInterval, fUnit)
    /\ fpc' = IF fResult'.error = "" THEN "resolved" ELSE "failed"
    /\ fError' = fResult'.error
    /\ UNCHANGED <<fCells, fRow, fSelection, fInterval, fUnit, fParsed, fHints, fLabel>>

\* _parse_interval_frequency on the stored token
ParseIntervalFrequency ==
    /\ fpc = "resolved"
    /\ fParsed' = _parse_interval_frequency(fResult.token)
    /\ fpc' = "parsed"
    /\ UNCHANGED <<fCells, fRow, fSelection, fInterval, fUnit, fResult, fHints, fLabel, fError>>

HintIntervals == {None, Some(7)}
HintUnits == {None, Some("weeks")}

\* _frequency_label_from_details on the stored token, with each hint either
\* the stored value, left out, or some other value
FrequencyLabel ==
    /\ fpc = "parsed"
    /\ \E hi \in HintIntervals \cup {fResult.interval},
          hu \in HintUnits \cup {fResult.unit} :
            /\ fHints' = <<hi, hu>>
            /\ fLabel' = _frequency_label_from_details(fResult.token, hi, hu)
    /\ fpc' = "labelled"
    /\ UNCHANGED <<fCells, fRow, fSelection, fInterval, fUnit, fResult, fParsed, fError>>


----------------------------------------------------------------------------
(* Properties of the frequency codec *)

ResolveReturned == fpc \in {"resolved", "parsed", "labelled"}
ResolveRaised == fpc = "failed" /\ fResult.error /= ""

\* C6: for every unit in {months, years} and every n in 1..120, resolve with
\* the custom selection returns the token interval:<unit>:<n> with (n, unit),
\* and parse of that token returns exactly (n, unit).
C6_ResolveParseRoundTrip ==
    \A u \in {"months", "years"}, n \in 1..120 :
        (/\ fpc /= "form"
         /\ fSelection = "custom_interval"
         /\ fInterval = Some(ToString(n))
         /\ fUnit = Some(u))
        => /\ ResolveReturned
           /\ fResult = [error |-> "",
                         token |-> "interval:" \o u \o ":" \o ToString(n),
                         interval |-> Some(n), unit |-> Some(u)]
           /\ fpc \in {"parsed", "labelled"} => fParsed = <<Some(n), Some(u)>>

C6_Witness ==
    /\ fpc = "parsed"
    /\ fCells = <<>>
    /\ fSelection = "custom_interval"
    /\ fInterval = Some("120")
    /\ fUnit = Some("years")
    /\ fResult.token = "interval:years:120"
    /\ fParsed = <<Some(120), Some("years")>>

\* the interval and the unit of the catalog keys, listed by hand
C16_Catalog ==
    [contrat_annuel |-> <<Some(1), Some("years")>>,
     contrat_semestriel |-> <<Some(6), Some("months")>>,
     contrat_trimestriel |-> <<Some(3), Some("months")>>,
     contrat_bimestriel |-> <<Some(2), Some("months")>>,
     contrat_mensuel |-> <<Some(1), Some("months")>>,
     prestation_ponctuelle |-> <<None, None>>]

\* the pair resolve returned with its token
C16_Resolved == <<fResult.interval, fResult.unit>>

\* C16 as stated: for every selection resolve accepts, catalog key or
\* custom, parse of the token resolve returned gives back the (interval,
\* unit) pair resolve returned with it
C16_ResolveThenParse ==
    fpc \in {"parsed", "labelled"} => fParsed = C16_Resolved

\* C16: for every custom selection resolve accepts, parse of the token
\* resolve returned gives back the (interval, unit) pair resolve returned
\* with it; for a catalog key resolve returns the key as the token with the
\* pair of the catalog, and parse of the key gives (None, None)
C16_CustomRoundTripCatalogNone ==
    fpc \in {"parsed", "labelled"} =>
        IF fSelection = "custom_interval"
        THEN /\ fResult.interval /= None /\ fResult.unit /= None
             /\ fParsed = C16_Resolved
        ELSE /\ fSelection \in DOMAIN C16_Catalog
             /\ fResult.token = fSelection
             /\ C16_Resolved = C16_Catalog[fSelection]
             /\ fParsed = <<None, None>>

\* a custom selection written with spaces round the interval was resolved
\* and parsed; so was a catalog key
C16_Witness ==
    /\ fpc = "parsed"
    /\ fSelection = "custom_interval"
    /\ fInterval = Some(" 7 ")
    /\ fResult.token = "interval:months:7"
    /\ fParsed = <<Some(7), Some("months")>>

C16_CatalogKeyParsed ==
    /\ fpc = "parsed"
    /\ fSelection = "contrat_semestriel"
    /\ fResult.token = "contrat_semestriel"
    /\ C16_Resolved = <<Some(6), Some("months")>>
    /\ fParsed = <<None, None>>

\* C7: for every custom token t = interval:<unit>:<n> (unit in {months, years},
\* 1 <= n <= 120) in the frequency cell of a services row, preparing the
\* frequency from the row and resolving it gives back t, whatever the interval
\* and unit hint cells of the row hold; neither step rejects t.
C7_ImportTokenRoundTrip ==
    \A u \in {"months", "years"}, n \in 1..120 :
        LET t == "interval:" \o u \o ":" \o ToString(n) IN
        (Len(fCells) = 5 /\ fCells[3] = StrCell(t) /\ fRow /= None)
        => /\ fpc /= "failed"
           /\ ResolveReturned => fResult.token = t

C7_Witness ==
    /\ fpc = "resolved"
    /\ Len(fCells) = 5
    /\ fCells[3] = StrCell("interval:months:12")
    /\ fCells[4] = IntCell(5)
    /\ fCells[5] = NoneCell
    /\ fRow[1].frequency_interval = Some(5)
    /\ fResult.token = "interval:months:12"

\* C8: the label of a catalog key is the key's fixed label whatever hints are
\* passed; the label of a custom token produced by resolve is the same whether
\* each hint is the value resolve returned or is left out and re-derived.
C8_LabelIndependentOfHints ==
    fpc = "labelled" =>
        /\ fResult.token \in DOMAIN PREDEFINED_FREQUENCIES
            => fLabel = PREDEFINED_FREQUENCIES[fResult.token].label
        /\ (/\ fSelection = "custom_interval"
            /\ fHints[1] \in {None, fResult.interval}
            /\ fHints[2] \in {None, fResult.unit})
            => /\ fLabel = _frequency_label_from_details(
                              fResult.token, fResult.interval, fResult.unit)
               /\ fLabel /= fResult.token

C8_Witness ==
    /\ fpc = "labelled"
    /\ fSelection = "custom_interval"
    /\ fResult.token = "interval:years:1"
    /\ fHints = <<None, None>>
    /\ fLabel = "Tous les ans"

\* the interval texts of the model, by what they denote
C9_ValidIntervalTexts == {ToString(n) : n \in 1..120} \cup {" 7 ", "+12", "007"}
C9_TooSmallTexts == {"0", "-3"}
C9_TooLargeTexts == {"121", "999"}
C9_NonIntegerTexts == {"abc", "1.5", "12a"}

\* C9: resolve with the custom selection returns a token iff the interval is
\* present and is an integer in [1, 120] and the unit is months or years;
\* otherwise it raises an error naming a problem the input has (missing
\* interval, unknown unit, non-integer interval, out of range) and yields no
\* token; a selection that is neither custom nor a catalog key is rejected.
C9_ResolveValidation ==
    (ResolveReturned \/ ResolveRaised) =>
        /\ fSelection = "custom_interval" =>
            /\ fInterval \in {None, Some("")}
                    \cup {Some(t) : t \in C9_ValidIntervalTexts \cup C9_TooSmallTexts
                                        \cup C9_TooLargeTexts \cup C9_NonIntegerTexts}
            /\ ResolveReturned <=>
                    /\ fInterval /= None
                    /\ fInterval[1] \in C9_ValidIntervalTexts
                    /\ fUnit \in {Some("months"), Some("years")}
            /\ ResolveRaised =>
                /\ fResult.token = ""
                /\ fError = fResult.error
                /\ fError \in {ERR_MISSING_INTERVAL, ERR_UNKNOWN_UNIT, ERR_NOT_INTEGER,
                               ERR_TOO_SMALL, ERR_TOO_LARGE}
                /\ fError = ERR_MISSING_INTERVAL => fInterval \in {None, Some("")}
                /\ fError = ERR_UNKNOWN_UNIT
                        => fUnit \notin {Some("months"), Some("years")}
                /\ fError = ERR_NOT_INTEGER => fInterval[1] \in C9_NonIntegerTexts
                /\ fError = ERR_TOO_SMALL => fInterval[1] \in C9_TooSmallTexts
                /\ fError = ERR_TOO_LARGE => fInterval[1] \in C9_TooLargeTexts
        /\ (/\ fSelection /= "custom_interval"
            /\ fSelection \notin DOMAIN PREDEFINED_FREQUENCIES)
            => /\ ResolveRaised
               /\ fResult.token = ""
               /\ fError = ERR_UNKNOWN_FREQUENCY

C9_Witness ==
    /\ fpc = "failed"
    /\ fSelection = "custom_interval"
    /\ fInterval = Some("121")
    /\ fUnit = Some("months")
    /\ fResult.token = ""
    /\ fError = ERR_TOO_LARGE

----------------------------------------------------------------------------
(* Workload cell codec (importers.py) *)

WORKLOAD_STATE_ALIASES ==
    [warn |-> "warn", warning |-> "warn", orange |-> "warn",
     attention |-> "warn", a |-> "warn",
     bad |-> "bad", rouge |-> "bad", red |-> "bad", critique |-> "bad",
     r |-> "bad",
     ok |-> "ok", vert |-> "ok", green |-> "ok", g |-> "ok"]

HOUR_SUFFIXES == <<"heures", "hours", "heure", "hour", "h">>

\* x rounded to k decimals, ties to even: round(x, k) and f"{x:.kf}" on a value
\* whose decimal expansion the float holds exactly; the result is in units of
\* 10^-k
RoundToDecimals(x, k) ==
    LET target == 10 ^ k
        a == IF x.num < 0 THEN 0 - x.num ELSE x.num
        sign == IF x.num < 0 THEN 0 - 1 ELSE 1
    IN  IF x.den <= target THEN x.num * (target \div x.den)
        ELSE LET step == x.den \div target
                 q == a \div step
                 r == a % step
             IN  IF 2 * r > step \/ (2 * r = step /\ q % 2 = 1)
                 THEN sign * (q + 1) ELSE sign * q

\* f"{v:.2f}" of v = c / 100 >= 0
TwoDecimals(c) ==
    LET f == ToString(c % 100) IN
    ToString(c \div 100) \o "." \o Zeros(2 - Len(f)) \o f

\* mutant: always two decimals, whole numbers included
_format_hours_fixed_decimals(value) ==
    IF value.kind /= "num" THEN [error |-> "Durée invalide", text |-> ""]
    ELSE [error |-> "",
          text |-> TwoDecimals(RoundToDecimals(Num(RoundToDecimals(value, 4), 10 ^ 4), 2))]

\* importers._format_hours: [error, text]
_format_hours(value) ==
    IF value.kind /= "num" THEN [error |-> "Durée invalide", text |-> ""]
    ELSE LET rounded == Num(RoundToDecimals(value, 4), 10 ^ 4)
             text == RStripChars(
                        RStripChars(TwoDecimals(RoundToDecimals(rounded, 2)), {"0"}),
                        {"."})
         IN  IF IsInteger(rounded)
             THEN [error |-> "", text |-> PyStrInt(rounded.num \div rounded.den)]
             ELSE [error |-> "", text |-> text]

\* openpyxl.utils.get_column_letter
RECURSIVE get_column_letter(_)
get_column_letter(n) ==
    LET letters == "ABCDEFGHIJKLMNOPQRSTUVWXYZ"
        r == (n - 1) % 26
        q == (n - 1) \div 26
    IN  (IF q = 0 THEN "" ELSE get_column_letter(q)) \o CharAt(letters, r + 1)

\* importers._format_workload_error
_format_workload_error(value, row_index, column_index) ==
    "Ligne " \o PyStrInt(row_index) \o ", colonne "
    \o get_column_letter(column_index) \o ": valeur '" \o value
    \o "' invalide. Utilisez bad, warn ou ok:4."

\* cleaned without the first suffix of HOUR_SUFFIXES it ends with
RECURSIVE StripHourSuffix(_, _)
StripHourSuffix(cleaned, k) ==
    IF k > Len(HOUR_SUFFIXES) THEN cleaned
    ELSE IF EndsWith(cleaned, HOUR_SUFFIXES[k])
    THEN DropLast(cleaned, Len(HOUR_SUFFIXES[k]))
    ELSE StripHourSuffix(cleaned, k + 1)

\* importers._parse_hours_value: [error, text]
_parse_hours_value(raw, row_index, column_index) ==
    LET cleaned == ReplaceChar(Strip(StripHourSuffix(Lower(Strip(raw)), 1)), ",", ".")
        value == PyFloat(cleaned)
        failure == [error |-> _format_workload_error(raw, row_index, column_index),
                    text |-> ""]
    IN  IF cleaned = "" THEN failure
        ELSE IF ~value.ok THEN failure
        ELSE IF value.kind = "num" /\ value.num <= 0 THEN failure
        ELSE IF value.kind = "inf" /\ value.num < 0 THEN failure
        ELSE _format_hours(value)

\* \d+(?:[.,]\d+)?
IsPlainNumber(s) ==
    LET dotted == ReplaceChar(s, ",", ".")
        dot == IndexOf(dotted, ".")
    IN  IF dot = 0 THEN Len(s) > 0 /\ AllDigits(s)
        ELSE /\ dot > 1 /\ dot < Len(s)
             /\ AllDigits(SubSeq(dotted, 1, dot - 1))
             /\ AllDigits(DropFirst(dotted, dot))

\* re.match(r"^(\d+(?:[.,]\d+)?)\s*(h|heures|hours|heure|hour)?$", lower):
\* group(1), None when there is no match
NumericMatch(lower) ==
    LET candidates ==
            {lower} \cup {RStrip(DropLast(lower, Len(HOUR_SUFFIXES[k]))) :
                            k \in {j \in 1..Len(HOUR_SUFFIXES) :
                                        EndsWith(lower, HOUR_SUFFIXES[j])}}
        matching == {c \in {RStrip(lower)} \cup candidates : IsPlainNumber(c)}
    IN  IF matching = {} THEN None ELSE Some(CHOOSE c \in matching : TRUE)

WorkloadValue(v) == [error |-> "", value |-> v]
WorkloadFailure(message) == [error |-> message, value |-> None]

\* mutant: 4 and 8 hours become warn and bad after an ok prefix as well
OkWithHours_canonical_states(hours) ==
    IF hours.error /= "" THEN WorkloadFailure(hours.error)
    ELSE IF hours.text = "4" THEN WorkloadValue(Some("warn"))
    ELSE IF hours.text = "8" THEN WorkloadValue(Some("bad"))
    ELSE WorkloadValue(Some("ok:" \o hours.text))

\* "ok:" + a parsed hour count, or the error of the hour parser
OkWithHours(hours) ==
    IF hours.error /= "" THEN WorkloadFailure(hours.error)
    ELSE WorkloadValue(Some("ok:" \o hours.text))

\* importers._normalize_workload_cell_value: [error, value]; error is the
\* message of the ValueError raised, "" when the function returns
_normalize_workload_cell_value(raw_value, row_index, column_index) ==
    LET text == Strip(PyStr(raw_value))
        lower == Lower(text)
        remainder == LStripChars(DropFirst(lower, 2), {" ", ":", "_", "-"})
        colon == IndexOf(lower, ":")
        prefix == Strip(SubSeq(lower, 1, colon - 1))
        suffix == Strip(DropFirst(lower, colon))
        numeric_match == NumericMatch(lower)
        number == PyFloat(ReplaceChar(numeric_match[1], ",", "."))
        failure == WorkloadFailure(_format_workload_error(text, row_index, column_index))
    IN  IF raw_value.t = "none" THEN WorkloadValue(None)
        ELSE IF text = "" THEN WorkloadValue(None)
        ELSE IF lower \in DOMAIN WORKLOAD_STATE_ALIASES
        THEN WorkloadValue(Some(WORKLOAD_STATE_ALIASES[lower]))
        ELSE IF lower \in {"4", "4h"} THEN WorkloadValue(Some("warn"))
        ELSE IF lower \in {"8", "8h"} THEN WorkloadValue(Some("bad"))
        ELSE IF StartsWith(lower, "ok")
        THEN IF remainder = "" THEN WorkloadValue(Some("ok"))
             ELSE OkWithHours(_parse_hours_value(remainder, row_index, column_index))
        ELSE IF colon > 0 /\ prefix \in DOMAIN WORKLOAD_STATE_ALIASES
        THEN IF WORKLOAD_STATE_ALIASES[prefix] = "ok"
             THEN OkWithHours(_parse_hours_value(suffix, row_index, column_index))
             ELSE WorkloadValue(Some(WORKLOAD_STATE_ALIASES[prefix]))
        ELSE IF numeric_match /= None
        THEN IF number.num <= 0 THEN failure
             ELSE IF number.num = 4 * number.den THEN WorkloadValue(Some("warn"))
             ELSE IF number.num = 8 * number.den THEN WorkloadValue(Some("bad"))
             ELSE OkWithHours(_format_hours(number))
        ELSE failure

----------------------------------------------------------------------------
(* Workload codec: one cell of a workload sheet is decoded, the token is   *)
(* exported again and the exported cell is decoded once more               *)

\* numeric texts of the model with the number they denote, in units of 1/1000
NumericTexts ==
    {<<"4", 4000>>, <<"4h", 4000>>, <<"4 h", 4000>>, <<"4.0", 4000>>,
     <<"4,0", 4000>>, <<"04", 4000>>, <<"4H", 4000>>, <<"4 heures", 4000>>,
     <<"8", 8000>>, <<"8h", 8000>>, <<"8.0", 8000>>, <<"8 hours", 8000>>,
     <<"6", 6000>>, <<"6h", 6000>>, <<"2.5", 2500>>, <<"2,5", 2500>>,
     <<"2.50", 2500>>, <<"12", 12000>>, <<"7.75", 7750>>, <<"0.5", 500>>,
     <<"1,5 heure", 1500>>, <<"0.001", 1>>, <<"4.004", 4004>>,
     <<"0", 0>>, <<"0h", 0>>, <<"0.0", 0>>}

StateTexts ==
    DOMAIN WORKLOAD_STATE_ALIASES \cup {"Warn", "ORANGE", " rouge ", "OK", "Vert"}

PrefixedTexts ==
    {"ok:4", "ok 8", "ok:2.5", "ok:", "ok-", "okay", "ok:0", "ok:-4", "ok:nan",
     "ok:inf", "ok:abc", "ok:4h", "ok:0.001", "ok_4", "ok:1,5", "ok:6",
     "vert:4", "green: 8", "g:2", "warn:4", "bad:8", "rouge:2", "orange:",
     "vert:", "vert:abc", "a:1", "ok:8", "ok 4", "ok4", "OK:4", "ok-8",
     "ok:4.0", "ok:8,0", "Vert:8", "green:4h", "vert : 4", "warn:8", "bad:4",
     "orange:8", "attention:4", "r:4", "critique:2.5", "red: 6h", "Warn:4"}

OtherTexts ==
    {"", " ", "abc", "4:00", "+4", "-4", "4x", "h", "1e3", ".5", "4.", "x:4"}

WorkloadRawCells ==
    {NoneCell}
    \cup {StrCell(p[1]) : p \in NumericTexts}
    \cup {StrCell(t) : t \in StateTexts \cup PrefixedTexts \cup OtherTexts}
    \cup {IntCell(n) : n \in {0, 1, 2, 4, 6, 8, 12}}
    \cup {FloatCell(m) : m \in {4 * Scale, 8 * Scale, 6 * Scale,
                                5 * (Scale \div 2), 31 * (Scale \div 4),
                                4 * Scale + 4 * (Scale \div 1000),
                                Scale \div 1000, 0}}

\* (row_index, column_index) of the cells of the model
WorkloadPlaces == {<<2, 2>>, <<3, 28>>, <<5, 365>>}

WorkloadIdle ==
    /\ wpc = "idle"
    /\ wRaw = NoneCell
    /\ wPlace = <<2, 2>>
    /\ wDecoded = WorkloadValue(None)
    /\ wExported = NoneCell
    /\ wRedecoded = WorkloadValue(None)

InitWorkload ==
    /\ wpc = "raw"
    /\ wRaw \in WorkloadRawCells
    /\ wPlace \in WorkloadPlaces
    /\ wDecoded = WorkloadValue(None)
    /\ wExported = NoneCell
    /\ wRedecoded = WorkloadValue(None)

\* parse_workload_plan_excel: _normalize_workload_cell_value(raw_value, row_index,
\* day_index + 2)
DecodeWorkloadCell ==
    /\ wpc = "raw"
    /\ wDecoded' = _normalize_workload_cell_value(wRaw, wPlace[1], wPlace[2])
    /\ wpc' = IF wDecoded'.error = "" THEN "decoded" ELSE "failed"
    /\ UNCHANGED <<wRaw, wPlace, wExported, wRedecoded>>

\* app._build_workload_plan_workbook._export_value, on a stored token
_export_value(value) ==
    IF value = "bad" THEN IntCell(8)
    ELSE IF value = "warn" THEN IntCell(4)
    ELSE StrCell(value)

\* _build_workload_plan_workbook: a day without a token is exported as ""
ExportWorkloadCell ==
    /\ wpc = "decoded"
    /\ wExported' = IF TruthyStr(wDecoded.value)
                    THEN _export_value(wDecoded.value[1]) ELSE StrCell("")
    /\ wpc' = "exported"
    /\ UNCHANGED <<wRaw, wPlace, wDecoded, wRedecoded>>

\* the exported sheet is imported again
RedecodeWorkloadCell ==
    /\ wpc = "exported"
    /\ wRedecoded' = _normalize_workload_cell_value(wExported, wPlace[1], wPlace[2])
    /\ wpc' = "redecoded"
    /\ UNCHANGED <<wRaw, wPlace, wDecoded, wExported>>

----------------------------------------------------------------------------
(* Properties of the workload codec *)

\* the number a numeric cell of the model denotes, in units of 1/1000
\* (None for a cell that is not a plain number)
C10_Thousandths(cell) ==
    CASE cell.t = "int" -> Some(cell.n * 1000)
      [] cell.t = "float" -> Some((cell.n * 1000) \div Scale)
      [] cell.t = "str" ->
            (IF \E p \in NumericTexts : p[1] = cell.s
             THEN Some((CHOOSE p \in NumericTexts : p[1] = cell.s)[2])
             ELSE None)
      [] OTHER -> None

\* the hours of a token ok:<hours> are the number v / 1000
C10_HoursDenote(token, v) ==
    LET hours == PyFloat(DropFirst(token, 3)) IN
    /\ hours.ok
    /\ hours.kind = "num"
    /\ hours.num * 1000 = v * hours.den

C11_IsDecimal(h) ==
    LET dot == IndexOf(h, ".") IN
    IF dot = 0 THEN Len(h) > 0 /\ AllDigits(h)
    ELSE /\ dot > 1 /\ dot < Len(h)
         /\ AllDigits(SubSeq(h, 1, dot - 1))
         /\ AllDigits(SubSeq(h, dot + 1, Len(h)))

\* a member of {None, warn, bad, ok, ok:<hours>}
C11_InAlphabet(value) ==
    \/ value = None
    \/ value \in {Some("warn"), Some("bad"), Some("ok")}
    \/ /\ value /= None
       /\ StartsWith(value[1], "ok:")
       /\ C11_IsDecimal(SubSeq(value[1], 4, Len(value[1])))

\* the letters of the columns of WorkloadPlaces
C11_ColumnLetters == (2 :> "B") @@ (28 :> "AB") @@ (365 :> "NA")

\* a message that identifies the sheet row and column of the cell
C11_CellScoped(message, place) ==
    StartsWith(message, "Ligne " \o ToString(place[1]) \o ", colonne "
                        \o C11_ColumnLetters[place[2]] \o ":")

\* C11: for every raw cell value, decode either raises a cell-scoped error
\* (one that identifies the sheet row and column) or returns a member of the
\* closed alphabet {None, warn, bad, ok, ok:<hours>}.
C11_ClosedAlphabet ==
    wpc \notin {"idle", "raw"} =>
        IF wDecoded.error = "" THEN C11_InAlphabet(wDecoded.value)
        ELSE C11_CellScoped(wDecoded.error, wPlace)

\* the hours of a token are written with the digits needed and no more: no
\* leading zero before another digit, no trailing zero after the point
C12_MinimalDigits(h) ==
    /\ C11_IsDecimal(h)
    /\ (Len(h) > 1 /\ SubSeq(h, 1, 1) = "0") => SubSeq(h, 2, 2) = "."
    /\ IndexOf(h, ".") > 0 => SubSeq(h, Len(h), Len(h)) /= "0"

\* the hours of a token denote a number above zero
C12_Positive(h) == \E i \in 1..Len(h) : SubSeq(h, i, i) \in Digits \ {"0"}

\* C12: in every token ok:<hours> that decode returns, <hours> denotes a
\* strictly positive number written with the minimum digits needed, for every
\* positive hour count accepted, very small ones included; a zero hour count
\* is rejected with an error.
C12_HoursPositiveMinimal ==
    wpc \notin {"idle", "raw"} =>
        /\ (/\ wDecoded.error = ""
            /\ wDecoded.value /= None
            /\ StartsWith(wDecoded.value[1], "ok:"))
            => LET h == SubSeq(wDecoded.value[1], 4, Len(wDecoded.value[1]))
               IN  C12_MinimalDigits(h) /\ C12_Positive(h)
        /\ (C10_Thousandths(wRaw) = Some(0)
             \/ wRaw \in {StrCell("ok:0"), StrCell("ok:-4")})
            => wDecoded.error /= ""

\* C13: for every token t that decode returns, exporting t (bad becomes 8,
\* warn becomes 4, anything else unchanged) and decoding the exported value
\* again succeeds and returns exactly t.
C13_ExportRoundTrip ==
    wpc = "redecoded" => wRedecoded = wDecoded

\* the round trip of every token but ok:0
C13_RoundTripButZero ==
    (wpc = "redecoded" /\ wDecoded.value /= Some("ok:0")) => wRedecoded = wDecoded

\* decode without the token of an invalid duration
C11_ButInvalidDuration ==
    (wpc \notin {"idle", "raw"} /\ wDecoded.error /= "Durée invalide")
        => C11_ClosedAlphabet


\* cells that give hours after "ok" or after an alias of ok and a colon, with
\* the hours in units of 1/1000
C21_OkHours ==
    {<<"ok:4", 4000>>, <<"ok 4", 4000>>, <<"ok4", 4000>>, <<"OK:4", 4000>>,
     <<"ok_4", 4000>>, <<"ok:4h", 4000>>, <<"ok:4.0", 4000>>,
     <<"vert:4", 4000>>, <<"vert : 4", 4000>>, <<"green:4h", 4000>>,
     <<"ok:8", 8000>>, <<"ok 8", 8000>>, <<"ok-8", 8000>>, <<"ok:8,0", 8000>>,
     <<"green: 8", 8000>>, <<"Vert:8", 8000>>,
     <<"ok:2.5", 2500>>, <<"ok:1,5", 1500>>, <<"ok:6", 6000>>, <<"g:2", 2000>>}

\* cells that give an alias of warn or bad, a colon and hours, with the state
\* of the alias
C21_StateHours ==
    {<<"warn:4", "warn">>, <<"warn:8", "warn">>, <<"Warn:4", "warn">>,
     <<"orange:8", "warn">>, <<"attention:4", "warn">>, <<"a:1", "warn">>,
     <<"bad:8", "bad">>, <<"bad:4", "bad">>, <<"rouge:2", "bad">>,
     <<"r:4", "bad">>, <<"critique:2.5", "bad">>, <<"red: 6h", "bad">>}

\* cells that give the ok state and no hours
C21_BareOk == {"ok", "OK", "vert", "Vert", "green", "g"}

\* C21: hours given after an explicit ok prefix or an alias of ok (ok:4, ok 8,
\* vert:4) decode to ok:<hours>, never to warn or bad, also when the hours
\* are exactly 4 or 8; a bare ok decodes to ok, which is no ok:<n>; an alias
\* of warn or bad followed by :<hours> decodes to the bare state.
C21_ExplicitStateKept ==
    wpc \notin {"idle", "raw"} =>
        /\ \A c \in C21_OkHours :
                wRaw = StrCell(c[1]) =>
                    /\ wDecoded.error = ""
                    /\ wDecoded.value \notin {None, Some("warn"), Some("bad"), Some("ok")}
                    /\ StartsWith(wDecoded.value[1], "ok:")
                    /\ C10_HoursDenote(wDecoded.value[1], c[2])
                    /\ c[2] = 4000 => wDecoded.value = Some("ok:4")
                    /\ c[2] = 8000 => wDecoded.value = Some("ok:8")
        /\ \A t \in C21_BareOk :
                wRaw = StrCell(t) =>
                    /\ wDecoded = WorkloadValue(Some("ok"))
                    /\ ~StartsWith(wDecoded.value[1], "ok:")
        /\ \A c \in C21_StateHours :
                wRaw = StrCell(c[1]) => wDecoded = WorkloadValue(Some(c[2]))

C21_Witness ==
    /\ wpc = "decoded"
    /\ wRaw = StrCell("vert:4")
    /\ wDecoded = WorkloadValue(Some("ok:4"))

\* a warn alias with hours has been decoded
C21_StateWitness ==
    /\ wpc = "decoded"
    /\ wRaw = StrCell("orange:8")
    /\ wDecoded = WorkloadValue(Some("warn"))

----------------------------------------------------------------------------
(* Import of a row-based sheet: import_clients,                            *)
(* import_subcontracted_services, import_filter_lines, import_belt_lines   *)

MaxRows == 3

ALLOWED_IMPORT_EXTENSIONS == {".xlsx", ".xlsm", ".xltx", ".xltm"}
STATUS_OPTIONS == {"actif", "inactif"}
SUBCONTRACT_STATUS_DEFAULT == "non_commence"
SUBCONTRACT_STATUS_OPTIONS == <<"non_commence", "en_cours", "fait">>

ERR_NO_FILE == "Aucun fichier sélectionné."
ERR_EXTENSION ==
    "Format de fichier non supporté. Merci d'utiliser un fichier Excel (.xlsx)."

\* what the collaborators of the import loop (the catalog and client
\* lookups, the model constructors, the crud.create_* calls and their
\* session.commit()) do for one row: the record is created, or one of them
\* raises a ValueError, an HTTPException or a database error
CreationOutcomes(kind) ==
    IF kind = "services"
    THEN {"created", "ValueError", "HTTPException", "OperationalError"}
    ELSE {"created", "ValueError", "OperationalError"}

\* the text the import loop records for an exception of a collaborator
\* (exc.detail of an HTTPException, str(exc) otherwise)
RaisedMessage(kind, outcome) ==
    CASE outcome = "ValueError" /\ kind = "services" ->
            "Aucun client correspondant au contact renseigné. Ajoutez "
            \o "l'identifiant client pour lever l'ambiguïté."
      [] outcome = "ValueError" /\ kind /= "services" -> "1 validation error"
      [] outcome = "HTTPException" -> "Client introuvable"
      [] outcome = "OperationalError" ->
            "(sqlite3.OperationalError) database is locked"

\* the header rows of the sheets of each kind
HeaderRows(kind) ==
    CASE kind = "clients" ->
            {<<Some("Entreprise"), Some("Nom Client"), Some("Statut"),
               Some("Contact 1 Nom"), Some("Contact 1 Email")>>,
             <<Some("SOCIÉTÉ"), Some("nom-client"), Some(" statut "),
               Some("contact1_nom"), Some("Contact.1.Mail")>>,
             <<Some("Entreprise"), Some("Nom Client"), Some("Email")>>,
             <<Some("Entreprise"), Some("Email"), Some("Statut")>>,
             <<Some("Contact 1 Nom"), Some("Contact 1 Email")>>,
             <<Some("Colonne A"), None, Some("")>>}
      [] kind = "services" ->
            {<<Some("Client"), Some("Prestation"), Some("Fréquence"), Some("Statut")>>,
             <<Some("CLIENT"), Some("Libellé"), Some("frequence"), Some("STATUT")>>,
             <<None, Some("Montant")>>,
             <<Some("Colonne A"), None, Some("")>>}
      [] kind = "filters" ->
            {<<Some("Site"), Some("Équipement"), Some("Format"), Some("Quantité")>>,
             <<Some("LIEU"), Some("machine"), Some("Format-Type"), Some("QTÉ")>>,
             <<Some("Site"), Some("Format"), Some("Quantité")>>,
             <<Some("Colonne A"), None, Some("")>>}
      [] kind = "belts" ->
            {<<Some("Site"), Some("Équipement"), Some("Référence"), Some("Quantité")>>,
             <<Some("LIEU"), Some("machine"), Some("REF"), Some("QTÉ")>>,
             <<Some("Site"), Some("Equipement"), Some("Quantité")>>,
             <<Some("Colonne A"), None, Some("")>>}

\* the data rows of the sheets of each kind: a valid row, a row with an
\* invalid value, a row without a required value, a blank row
DataRows(kind) ==
    CASE kind = "clients" ->
            {<<StrCell("Acme"), StrCell("Durand"), StrCell("Actif"),
               StrCell("Paul"), StrCell("paul@acme.fr")>>,
             <<StrCell("Acme"), StrCell("Leroy"), StrCell("bogus"),
               NoneCell, NoneCell>>,
             <<NoneCell, NoneCell, StrCell("actif"), NoneCell, StrCell("x@acme.fr")>>,
             <<NoneCell, StrCell("  "), NoneCell, NoneCell, NoneCell>>}
      [] kind = "services" ->
            {<<StrCell("Dupont"), StrCell("nettoyage"), StrCell("contrat_mensuel"),
               StrCell("En cours")>>,
             <<StrCell("Dupont"), StrCell("nettoyage"), StrCell("contrat_annuel"),
               StrCell("bogus")>>,
             <<StrCell("Dupont"), NoneCell, StrCell("contrat_annuel"), NoneCell>>,
             <<NoneCell, StrCell("  "), NoneCell, NoneCell>>}
      [] kind = "filters" ->
            {<<StrCell("Usine"), StrCell("CTA 1"), StrCell("Cadre"), IntCell(2)>>,
             <<StrCell("Usine"), StrCell("CTA 2"), StrCell("rond"), NoneCell>>,
             <<StrCell("Usine"), NoneCell, StrCell("cadre"), NoneCell>>,
             <<NoneCell, StrCell("  "), NoneCell, NoneCell>>}
      [] kind = "belts" ->
            {<<StrCell("Usine"), StrCell("CTA 1"), StrCell("SPZ-1000"), IntCell(2)>>,
             <<StrCell("Usine"), StrCell("CTA 2"), StrCell("XPA 900"),
               StrCell("zéro")>>,
             <<StrCell("Usine"), StrCell("CTA 3"), NoneCell, IntCell(1)>>,
             <<NoneCell, StrCell("  "), NoneCell, NoneCell>>}

\* the sheets of at most n data rows
Sheets(kind, n) ==
    UNION {[1..k -> DataRows(kind)] : k \in 0..n}

\* those whose rows are all the same
UniformSheets(kind, n) ==
    {[i \in 1..k |-> row] : k \in 0..n, row \in DataRows(kind)}

Filenames == {"import.xlsx", "Import.XLSM", "", "import.csv"}

\* file.filename.lower().endswith(ALLOWED_IMPORT_EXTENSIONS)
AllowedExtension(filename) ==
    \E ext \in ALLOWED_IMPORT_EXTENSIONS : EndsWith(Lower(filename), ext)

ImportIdle ==
    /\ iPc = "idle"
    /\ iKind = ""
    /\ iFilename = ""
    /\ iHeaderRow = <<>>
    /\ iSheet = <<>>
    /\ iHeaders = <<>>
    /\ iRead = 0
    /\ iRows = <<>>
    /\ iDone = 0
    /\ iCreated = 0
    /\ iErrors = <<>>
    /\ iErrorRows = <<>>
    /\ iCalls = <<>>
    /\ iReports = <<>>
    /\ sEntreprises = <<>>
    /\ sClients = <<>>

\* the header row of the sheets uploaded under the other file names
PlainHeaderRow(kind) ==
    CASE kind = "clients" ->
            <<Some("Entreprise"), Some("Nom Client"), Some("Statut"),
              Some("Contact 1 Nom"), Some("Contact 1 Email")>>
      [] kind = "services" ->
            <<Some("Client"), Some("Prestation"), Some("Fréquence"), Some("Statut")>>
      [] kind \in {"filters", "belts"} ->
            <<Some("Site"), Some("Équipement"),
              Some(IF kind = "filters" THEN "Format" ELSE "Référence"),
              Some("Quantité")>>

\* the Entreprise rows of the database before the upload, by nom (the id
\* and created_at columns are left out)
StoredEntreprises ==
    {<<>>,
     "Acme" :> [adresse_facturation |-> None, tag |-> None, statut |-> FALSE]}

\* crud.ensure_entreprise with create_entreprise and update_entreprise, each
\* ending in session.commit(): the Entreprise rows once it returned
ensure_entreprise(entreprises, name, adresse_facturation, tag, statut) ==
    LET or_none(value) == IF value = Some("") THEN None ELSE value
        updated(entreprise) ==
            [adresse_facturation |->
                IF adresse_facturation /= None THEN or_none(adresse_facturation)
                ELSE entreprise.adresse_facturation,
             tag |-> IF tag /= None THEN or_none(tag) ELSE entreprise.tag,
             statut |-> IF statut /= None THEN statut[1] ELSE entreprise.statut]
        ensured(normalized) ==
            IF normalized \in DOMAIN entreprises
            THEN [entreprises EXCEPT ![normalized] = updated(@)]
            ELSE entreprises
                 @@ (normalized :>
                        [adresse_facturation |-> or_none(adresse_facturation),
                         tag |-> or_none(tag),
                         statut |-> IF statut /= None THEN statut[1] ELSE TRUE])
    IN  ensured(Strip(name))

\* import_clients: the call of crud.ensure_entreprise for a record
EnsureEntreprise(row) ==
    ensure_entreprise(sEntreprises, row.company_name[1], row.billing_address,
                      row.tags,
                      IF TruthyStr(row.status) THEN Some(row.status[1] = "actif")
                      ELSE None)

\* crud.create_client: the Client row and its Contact rows, committed
\* together
NewClient(row) ==
    [name |-> row.name[1], company_name |-> Strip(row.company_name[1]),
     contacts |-> Len(row.contacts)]

\* a clients sheet with the columns of two numbered contacts, the second
\* contact before the first
ContactHeaderRow ==
    <<Some("Entreprise"), Some("Nom Client"), Some("Contact 2 Nom"),
      Some("Contact 2 Email"), Some("Contact 2 Tel"), Some("Contact 2 Notes"),
      Some("Contact 1 Nom")>>

\* its data rows: every field of the contacts filled or left empty
ContactRows ==
    {<<StrCell("Acme"), StrCell("Durand"), name2, email2, phone2, notes2, name1>> :
        name2 \in {NoneCell, StrCell("Zoé")},
        email2 \in {NoneCell, StrCell("z@acme.fr")},
        phone2 \in {NoneCell, IntCell(612)},
        notes2 \in {NoneCell, StrCell("achats")},
        name1 \in {NoneCell, StrCell("Paul")}}

\* what a cell of a quantity-like column can hold: nothing, a number, a
\* text
QuantityCells ==
    {NoneCell, StrCell("  "),
     IntCell(0), IntCell(1), IntCell(12), IntCell(0 - 3),
     FloatCell(0), FloatCell(2 * Scale), FloatCell((5 * Scale) \div 2),
     FloatCell(0 - Scale)}
    \cup {StrCell(t) :
            t \in {"3", "3.0", "3.", "03", "+3", " 4 ", "12.000", "10", "0", "0.0",
                   "00", "-2", "-2.0", "-0", "1.5", "0.5", ".5", ".0", "+.0", "2,0",
                   "1.2.3", "1 000", "3.0 x", "abc", "nan", "inf", ".", "+", "1.0.",
                   "7.10"}}

\* a sheet of each kind with its quantity-like columns
QuantityHeaderRow(kind) ==
    CASE kind = "filters" ->
            <<Some("Site"), Some("Équipement"), Some("Format"), Some("Quantité"),
              Some("Nb Poches")>>
      [] kind = "belts" ->
            <<Some("Site"), Some("Équipement"), Some("Référence"), Some("Quantité")>>
      [] kind = "services" ->
            <<Some("Client"), Some("Prestation"), Some("Fréquence"),
              Some("Intervalle"), Some("Client ID")>>

\* its data rows: one quantity-like cell varies
QuantityRows(kind) ==
    CASE kind = "filters" ->
            {<<StrCell("Usine"), StrCell("CTA 1"), StrCell("poche"), q, IntCell(4)>> :
                q \in QuantityCells}
            \cup {<<StrCell("Usine"), StrCell("CTA 1"), StrCell("poche"), IntCell(2), q>> :
                    q \in QuantityCells \ {NoneCell, StrCell("  ")}}
      [] kind = "belts" ->
            {<<StrCell("Usine"), StrCell("CTA 1"), StrCell("SPZ-1000"), q>> :
                q \in QuantityCells}
      [] kind = "services" ->
            {<<StrCell("Dupont"), StrCell("nettoyage"), StrCell("contrat_annuel"),
               q, IntCell(7)>> : q \in QuantityCells}
            \cup {<<StrCell("Dupont"), StrCell("nettoyage"), StrCell("contrat_annuel"),
                    IntCell(3), q>> : q \in QuantityCells}

\* the header texts of a third column of a clients sheet that look like the
\* column of a numbered contact
ContactHeaderTexts ==
    {"Contact 0 Nom", "contact_0_tel", "Contact 03 Prénom", "Contact 12 Notes",
     "Contact 2 E-mail", "contact2mail", "contact2_mail", "contact_1__nom",
     "contact__1_nom", "Contact 1 Nom/Prénom", "Contact 1 Nom Complet",
     "Contact 1 Fax", "Contact 1", "Contact Nom", "Contacts 1 Nom",
     "Le contact 1 nom", "Contact 1.5 Nom", "Contact n°1 Nom", "Téléphone"}

\* the clients sheets with such a column: <<header row, data row>>
ContactHeaderCases ==
    {<<<<Some("Entreprise"), Some("Nom Client"), Some(text)>>,
       <<StrCell("Acme"), StrCell("Durand"), StrCell("Zoé")>>>> :
        text \in ContactHeaderTexts}

\* the sheets of one data row under a header row of their own:
\* <<header row, data row>>
CellCases(kind) ==
    CASE kind = "clients" ->
            {<<ContactHeaderRow, row>> : row \in ContactRows}
            \cup ContactHeaderCases
      [] OTHER -> {<<QuantityHeaderRow(kind), row>> : row \in QuantityRows(kind)}

\* an upload under the name import.xlsx: any sheet under the plain header
\* row, a sheet of identical rows under any header row, or one of CellCases;
\* under the other names: a sheet of one row.  An Entreprise is in the
\* database before the upload of some sheets of at most one row
InitImport ==
    /\ iPc = "upload"
    /\ iKind \in ImportKinds
    /\ iFilename \in Filenames
    /\ iHeaderRow \in HeaderRows(iKind) \cup {c[1] : c \in CellCases(iKind)}
    /\ iSheet \in Sheets(iKind, MaxRows) \cup {<<c[2]>> : c \in CellCases(iKind)}
    /\ \/ /\ iFilename = "import.xlsx"
          /\ iHeaderRow = PlainHeaderRow(iKind)
          /\ iSheet \in Sheets(iKind, MaxRows)
       \/ /\ iFilename = "import.xlsx"
          /\ iHeaderRow \in HeaderRows(iKind)
          /\ iSheet \in UniformSheets(iKind, MaxRows)
       \/ /\ iHeaderRow = PlainHeaderRow(iKind)
          /\ iSheet \in Sheets(iKind, MaxRows)
          /\ Len(iSheet) = 1
       \/ /\ iFilename = "import.xlsx"
          /\ Len(iSheet) = 1
          /\ <<iHeaderRow, iSheet[1]>> \in CellCases(iKind)
    /\ iHeaders = <<>>
    /\ iRead = 0
    /\ iRows = <<>>
    /\ iDone = 0
    /\ iCreated = 0
    /\ iErrors = <<>>
    /\ iErrorRows = <<>>
    /\ iCalls = <<>>
    /\ iReports = <<>>
    /\ sEntreprises \in IF iKind = "clients" /\ Len(iSheet) <= 1
                        THEN StoredEntreprises ELSE {<<>>}
    /\ sClients = <<>>

\* app._store_import_report: one outcome handed to the report sink
Report(created, total, errors) ==
    [created |-> created, total |-> total, errors |-> errors]

\* return _store_import_report(created=0, total=0, errors=[message]); about
\* is the sheet row the message is about (0: the file or the headers)
Rejected(message, about) ==
    /\ iPc' = "stored"
    /\ iReports' = Append(iReports, Report(0, 0, <<message>>))
    /\ iErrorRows' = <<about>>

\* import_*: the checks of file.filename
ReceiveFile ==
    /\ iPc = "upload"
    /\ IF iFilename = "" THEN Rejected(ERR_NO_FILE, 0)
       ELSE IF ~AllowedExtension(iFilename) THEN Rejected(ERR_EXTENSION, 0)
       ELSE iPc' = "headers" /\ UNCHANGED <<iReports, iErrorRows>>
    /\ UNCHANGED <<iKind, iFilename, iHeaderRow, iSheet, iHeaders, iRead, iRows,
                   iDone, iCreated, iErrors, iCalls>>

\* parse_*_excel up to the row loop: the headers are resolved and checked;
\* the ValueError of a check is caught by import_* and stored
ParseHeaders ==
    /\ iPc = "headers"
    /\ iHeaders' = ResolveHeaders(iKind, iHeaderRow)
    /\ LET message == CheckHeaders(iKind, iHeaders')
       IN  IF message /= "" THEN Rejected(message, 0)
           ELSE iPc' = "rows" /\ UNCHANGED <<iReports, iErrorRows>>
    /\ UNCHANGED <<iKind, iFilename, iHeaderRow, iSheet, iRead, iRows,
                   iDone, iCreated, iErrors, iCalls>>

\* parse_*_excel: one iteration of the row loop; a ValueError raised for the
\* row leaves the parser and import_* stores it as the outcome
ParseRow ==
    LET read(parsed, row_index) ==
            CASE parsed.outcome = "skip" ->
                    UNCHANGED <<iPc, iRows, iReports, iErrorRows>>
              [] parsed.outcome = "record" ->
                    /\ iRows' = Append(iRows, parsed.record)
                    /\ UNCHANGED <<iPc, iReports, iErrorRows>>
              [] parsed.outcome = "error" ->
                    /\ Rejected(parsed.error, row_index)
                    /\ UNCHANGED iRows
    IN  /\ iPc = "rows"
        /\ iRead < Len(iSheet)
        /\ iRead' = iRead + 1
        /\ \E field_order \in FieldOrders :
                read(ParsedRow(iKind, iHeaders, iSheet[iRead + 1], iRead + 2,
                               field_order),
                     iRead + 2)
        /\ UNCHANGED <<iKind, iFilename, iHeaderRow, iSheet, iHeaders,
                       iDone, iCreated, iErrors, iCalls>>

\* parse_*_excel returns rows: created = 0, errors = []
ParserReturns ==
    /\ iPc = "rows"
    /\ iRead = Len(iSheet)
    /\ iPc' = "loop"
    /\ UNCHANGED <<iKind, iFilename, iHeaderRow, iSheet, iHeaders, iRead, iRows,
                   iDone, iCreated, iErrors, iErrorRows, iCalls, iReports>>

\* errors.append(f"Ligne {row_number} : {detail}") after session.rollback()
RowFailed(row_number, detail) ==
    /\ iErrors' = Append(iErrors, "Ligne " \o PyStrInt(row_number) \o " : " \o detail)
    /\ iErrorRows' = Append(iErrorRows, row_number)
    /\ UNCHANGED <<iPc, iCreated>>

\* created += 1
RowCreated ==
    /\ iCreated' = iCreated + 1
    /\ UNCHANGED <<iPc, iErrors, iErrorRows>>

\* an exception leaves import_*: no outcome is stored
Escaped ==
    /\ iPc' = "crashed"
    /\ UNCHANGED <<iCreated, iErrors, iErrorRows>>

\* the call of the collaborators for a row, which makes outcome
Called(row_number, outcome) ==
    iCalls' = Append(iCalls, [row |-> row_number, outcome |-> outcome])

\* import_clients: what the body of the loop raises before the record is
\* created ("" when nothing); import_filter_lines and import_belt_lines
\* check nothing
LineChecks(row) ==
    IF iKind /= "clients" THEN ""
    ELSE IF ~TruthyStr(row.company_name) THEN "Nom d'entreprise manquant"
    ELSE IF TruthyStr(row.status) /\ row.status[1] \notin STATUS_OPTIONS
    THEN "Statut inconnu"
    ELSE ""

\* import_clients, import_filter_lines, import_belt_lines: the body of the
\* loop for one record; except Exception
CreateLine(row, outcome) ==
    IF LineChecks(row) /= ""
    THEN RowFailed(row.row_number, LineChecks(row)) /\ UNCHANGED iCalls
    ELSE /\ Called(row.row_number, outcome)
         /\ IF outcome = "created" THEN RowCreated
            ELSE RowFailed(row.row_number, RaisedMessage(iKind, outcome))

\* import_clients: what the body of the loop leaves in the database for a
\* record.  crud.ensure_entreprise commits before crud.create_client runs; a
\* collaborator that raises does so before the first commit, or after it,
\* and session.rollback() then discards the uncommitted Client only
StoreWrites(row, raised_before_commit, outcome) ==
    IF iKind /= "clients" \/ LineChecks(row) /= "" THEN UNCHANGED svars
    ELSE IF outcome = "created"
    THEN /\ sEntreprises' = EnsureEntreprise(row)
         /\ sClients' = Append(sClients, NewClient(row))
    ELSE IF raised_before_commit THEN UNCHANGED svars
    ELSE /\ sEntreprises' = EnsureEntreprise(row)
         /\ UNCHANGED sClients

\* import_subcontracted_services: what the body of the loop raises for the
\* frequency and the status of the row ("" when nothing)
ServiceChecks(row) ==
    LET status_value == IF TruthyStr(row.status) THEN row.status[1]
                        ELSE SUBCONTRACT_STATUS_DEFAULT
        checked(prepared) ==
            IF prepared.error /= "" THEN prepared.error
            ELSE IF \A i \in 1..Len(SUBCONTRACT_STATUS_OPTIONS) :
                        SUBCONTRACT_STATUS_OPTIONS[i] /= status_value
            THEN "Statut '" \o (IF row.status = None THEN "None" ELSE row.status[1])
                 \o "' inconnu. Valeurs acceptées: "
                 \o Join(SUBCONTRACT_STATUS_OPTIONS, ", ")
            ELSE _resolve_frequency(prepared.selection, prepared.interval,
                                    prepared.unit).error
    IN  checked(_prepare_import_frequency(row))

\* import_subcontracted_services: the body of the loop for one record;
\* except (HTTPException, ValueError).  A ValueError comes from the client
\* or catalog lookup, before the checks; the other outcomes from
\* _create_subcontracted_service_from_form, after them
CreateService(row, outcome) ==
    LET checked(detail) ==
            IF detail /= ""
            THEN RowFailed(row.row_number, detail) /\ UNCHANGED iCalls
            ELSE /\ Called(row.row_number, outcome)
                 /\ CASE outcome = "created" -> RowCreated
                      [] outcome = "HTTPException" ->
                            RowFailed(row.row_number, RaisedMessage(iKind, outcome))
                      [] outcome = "OperationalError" -> Escaped
    IN  IF outcome = "ValueError"
        THEN /\ Called(row.row_number, outcome)
             /\ RowFailed(row.row_number, RaisedMessage(iKind, outcome))
        ELSE checked(ServiceChecks(row))

\* import_*: one iteration of the loop over rows
CreateRecord ==
    /\ iPc = "loop"
    /\ iDone < Len(iRows)
    /\ iDone' = iDone + 1
    /\ \E outcome \in CreationOutcomes(iKind), raised_before_commit \in BOOLEAN :
         /\ IF iKind = "services" THEN CreateService(iRows[iDone + 1], outcome)
            ELSE CreateLine(iRows[iDone + 1], outcome)
         /\ StoreWrites(iRows[iDone + 1], raised_before_commit, outcome)
    /\ UNCHANGED <<iKind, iFilename, iHeaderRow, iSheet, iHeaders, iRead, iRows,
                   iReports>>

\* import_*: return _store_import_report(created=created, total=len(rows),
\* errors=errors) after the loop
StoreReport ==
    /\ iPc = "loop"
    /\ iDone = Len(iRows)
    /\ iPc' = "stored"
    /\ iReports' = Append(iReports, Report(iCreated, Len(iRows), iErrors))
    /\ UNCHANGED <<iKind, iFilename, iHeaderRow, iSheet, iHeaders, iRead, iRows,
                   iDone, iCreated, iErrors, iErrorRows, iCalls>>

NextImport ==
    \/ ReceiveFile /\ UNCHANGED <<fvars, wvars, pvars, rvars, tvars, svars, vvars>>
    \/ ParseHeaders /\ UNCHANGED <<fvars, wvars, pvars, rvars, tvars, svars, vvars>>
    \/ ParseRow /\ UNCHANGED <<fvars, wvars, pvars, rvars, tvars, svars, vvars>>
    \/ ParserReturns /\ UNCHANGED <<fvars, wvars, pvars, rvars, tvars, svars, vvars>>
    \/ CreateRecord /\ UNCHANGED <<fvars, wvars, pvars, rvars, tvars, vvars>>
    \/ StoreReport /\ UNCHANGED <<fvars, wvars, pvars, rvars, tvars, svars, vvars>>

----------------------------------------------------------------------------
(* Properties of the import of a row-based sheet *)

\* the headers of the sheet passed the two upfront checks
HeadersPassed == iHeaders /= <<>> /\ CheckHeaders(iKind, iHeaders) = ""

\* the outcome of the import, once stored
StoredReport == iReports[Len(iReports)]

\* what the parser makes of data row i of the sheet (sheet row i + 1)
SheetRow(i) ==
    ParsedRow(iKind, iHeaders, iSheet[i], i + 1, <<"company_name", "name">>)

\* the data rows of the sheet that are not blank
FilledRows == {i \in 1..Len(iSheet) : SheetRow(i).outcome /= "skip"}

\* the data rows with a row-scoped validation failure: a value or a required
\* field the parser refuses, or one the import loop refuses before it
\* creates the record
FailingRows ==
    {i \in FilledRows :
        \/ SheetRow(i).outcome = "error"
        \/ IF iKind = "services" THEN ServiceChecks(SheetRow(i).record) /= ""
           ELSE LineChecks(SheetRow(i).record) /= ""}

\* the stored error entries about sheet row n
EntriesAbout(n) == {j \in 1..Len(iErrorRows) : iErrorRows[j] = n}

\* every call of the collaborators created its record
AllCreated == \A j \in 1..Len(iCalls) : iCalls[j].outcome = "created"

\* C1: in an import whose headers passed the upfront checks, a data row
\* with a row-scoped validation failure gives exactly one error entry for
\* that row and never stops the batch: when record creation itself never
\* fails, total counts every filled row, created counts every filled row
\* without a failure, and there is one error entry per failing row (5 rows of
\* which only row 3 is invalid give created=4, total=5 and one error)
C1_RowFailureNeverStopsBatch ==
    (iPc = "stored" /\ HeadersPassed /\ AllCreated) =>
        /\ StoredReport.total = Cardinality(FilledRows)
        /\ StoredReport.created = Cardinality(FilledRows \ FailingRows)
        /\ Len(StoredReport.errors) = Cardinality(FailingRows)
        /\ \A i \in FailingRows : Cardinality(EntriesAbout(i + 1)) = 1

\* the canonical field a header text stands for in a sheet of each kind,
\* listed by hand for the header texts of the model ("contact": a field of a
\* numbered contact, which covers no canonical field; "": nothing)
C2_FieldOf(kind, text) ==
    CASE text \in {"Entreprise", "SOCIÉTÉ"} /\ kind = "clients" -> "company_name"
      [] text \in {"Nom Client", "nom-client"} /\ kind = "clients" -> "name"
      [] text = "Email" /\ kind = "clients" -> "email"
      [] text \in {"Statut", " statut ", "STATUT"}
            /\ kind \in {"clients", "services"} -> "status"
      [] text \in {"Contact 1 Nom", "contact1_nom", "Contact 1 Email",
                   "Contact.1.Mail", "Contact 2 Nom", "Contact 2 Email",
                   "Contact 2 Tel", "Contact 2 Notes"}
            /\ kind = "clients" -> "contact"
      [] text \in {"Client", "CLIENT"} /\ kind = "services" -> "client_name"
      [] text = "Prestation" /\ kind = "services" -> "prestation"
      [] text = "Libellé" /\ kind = "services" -> "prestation_label"
      [] text \in {"Fréquence", "frequence"} /\ kind = "services" -> "frequency"
      [] text = "Montant" /\ kind = "services" -> "budget"
      [] text \in {"Site", "LIEU"} /\ kind \in {"filters", "belts"} -> "site"
      [] text \in {"Équipement", "Equipement", "machine"}
            /\ kind \in {"filters", "belts"} -> "equipment"
      [] text \in {"Format", "Format-Type"} /\ kind = "filters" -> "format_type"
      [] text \in {"Référence", "REF"} /\ kind = "belts" -> "reference"
      [] text \in {"Quantité", "QTÉ"} /\ kind \in {"filters", "belts"} -> "quantity"
      [] text = "Nb Poches" /\ kind = "filters" -> "pocket_count"
      [] text = "Intervalle" /\ kind = "services" -> "frequency_interval"
      [] text = "Client ID" /\ kind = "services" -> "client_id"
      [] OTHER -> ""

\* the required canonical fields of each kind of sheet, listed by hand
C2_Required(kind) ==
    CASE kind = "clients" -> {"company_name", "name"}
      [] kind = "services" -> {}
      [] kind = "filters" -> {"site", "equipment", "format_type"}
      [] kind = "belts" -> {"site", "equipment", "reference"}

\* the fields the header row stands for
C2_Fields ==
    {C2_FieldOf(iKind, iHeaderRow[i][1]) :
        i \in {j \in 1..Len(iHeaderRow) : iHeaderRow[j] /= None}} \ {""}

\* at least one header resolves and every required field is covered
C2_Covered ==
    C2_Fields /= {} /\ C2_Required(iKind) \subseteq (C2_Fields \ {"contact"})

\* C2: a sheet goes on to row processing if and only if at least one header
\* resolves and every required canonical field of its kind is covered by a
\* resolved header, whatever the case and the accents of the header;
\* otherwise the import is rejected before any data row is read, no
\* record-creation call is made, and the outcome is created=0, total=0 with
\* a single error
C2_HeaderGate ==
    iHeaders /= <<>> =>
        IF C2_Covered
        THEN /\ iPc \in {"rows", "loop", "stored", "crashed"}
             /\ iPc = "stored" => iRead >= 1 \/ iSheet = <<>>
        ELSE /\ iPc = "stored"
             /\ iRead = 0 /\ iRows = <<>> /\ iDone = 0
             /\ iCalls = <<>>
             /\ Len(iReports) = 1
             /\ StoredReport.created = 0 /\ StoredReport.total = 0
             /\ Len(StoredReport.errors) = 1

C2_Witness ==
    /\ iKind = "clients"
    /\ iHeaderRow = <<Some("Entreprise"), Some("Email"), Some("Statut")>>
    /\ Len(iSheet) = MaxRows
    /\ iPc = "stored"
    /\ iRead = 0
    /\ iReports = <<Report(0, 0, <<"Colonnes obligatoires manquantes: name">>)>>

\* C3: in every import loop any error raised by the record-creation call of
\* a row is caught and recorded as one error entry for that row, and the
\* loop goes on: no record-creation error takes the import out of its loop
\* without an outcome
C3_CreationErrorIsCaught ==
    /\ iPc /= "crashed"
    /\ \A j \in 1..Len(iCalls) :
          iCalls[j].outcome /= "created" =>
              Cardinality(EntriesAbout(iCalls[j].row)) = 1

\* C4: the outcome of an import that passed the upfront checks is stored
\* once, after the last row was processed, and accounts for every parsed
\* row exactly once: created + number of errors = total, created <= total
C4_OutcomeComplete ==
    (HeadersPassed /\ iReports /= <<>>) =>
        /\ Len(iReports) = 1
        /\ iPc = "stored"
        /\ iRead = Len(iSheet)
        /\ iDone = Len(iRows)
        /\ StoredReport.created + Len(StoredReport.errors) = StoredReport.total
        /\ StoredReport.created <= StoredReport.total

\* the text starts with the row number n: "Ligne n" and then no digit
C5_StartsWithRow(text, n) ==
    LET prefix == "Ligne " \o ToString(n)
    IN  /\ StartsWith(text, prefix)
        /\ Len(text) > Len(prefix)
        /\ CharAt(text, Len(prefix) + 1) \notin Digits

\* C5: every row-scoped error entry of a stored outcome starts with the
\* 1-based sheet row number of the row it is about, for every kind of sheet
\* and of row failure
C5_ErrorNamesRow ==
    iPc = "stored" =>
        \A j \in 1..Len(StoredReport.errors) :
            iErrorRows[j] /= 0 =>
                C5_StartsWithRow(StoredReport.errors[j], iErrorRows[j])

\* the columns of the numbered contacts under ContactHeaderRow, listed by
\* hand: the column of the name and the columns of the other fields
C15_Columns ==
    (1 :> [name |-> 7, others |-> {}])
    @@ (2 :> [name |-> 3, others |-> {4, 5, 6}])

\* contact index has a populated field and no name in the data row
C15_Nameless(row, index) ==
    /\ row[C15_Columns[index].name] = NoneCell
    /\ \E c \in C15_Columns[index].others : row[c] /= NoneCell

\* the same with the email and the phone as the only other fields
C15_NamelessReachable(row, index) ==
    /\ row[C15_Columns[index].name] = NoneCell
    /\ \E c \in C15_Columns[index].others \ {6} : row[c] /= NoneCell

\* the text names the contact index
C15_NamesContact(text, index) ==
    \E i \in 1..Len(text) :
        StartsWith(DropFirst(text, i - 1), "contact " \o ToString(index) \o " ")

\* the names of the contacts of the data row by ascending index
C15_Names(row) ==
    (IF row[7] = NoneCell THEN <<>> ELSE <<row[7].s>>)
    \o (IF row[3] = NoneCell THEN <<>> ELSE <<row[3].s>>)

\* the clients row with numbered contacts was read
C15_RowRead == iHeaderRow = ContactHeaderRow /\ iRead = 1

\* the row gave one row-scoped error, which names the contact index
C15_RowError(index) ==
    /\ iPc = "stored" /\ iRows = <<>>
    /\ iErrorRows = <<2>>
    /\ Len(StoredReport.errors) = 1
    /\ C15_NamesContact(StoredReport.errors[1], index)

\* the row gave a record with one nested contact per named index, by
\* ascending index
C15_RowContacts ==
    /\ Len(iRows) = 1
    /\ Len(iRows[1].contacts) = Len(C15_Names(iSheet[1]))
    /\ \A i \in 1..Len(iRows[1].contacts) :
            iRows[1].contacts[i].name = Some(C15_Names(iSheet[1])[i])

\* C15: for every contact index of a clients row, a contact with a populated
\* field (email, phone or description) and no name makes the row a
\* row-scoped error naming that index; otherwise the record carries exactly
\* one nested contact per index with a name, ordered by ascending index
C15_ContactNeedsName ==
    C15_RowRead =>
        IF \E index \in DOMAIN C15_Columns : C15_Nameless(iSheet[1], index)
        THEN \E index \in DOMAIN C15_Columns :
                C15_Nameless(iSheet[1], index) /\ C15_RowError(index)
        ELSE C15_RowContacts

\* the same where only an email or a phone asks for the name, and a
\* description alone asks for nothing
C15_EmailOrPhoneNeedsName ==
    C15_RowRead =>
        IF \E index \in DOMAIN C15_Columns : C15_NamelessReachable(iSheet[1], index)
        THEN \E index \in DOMAIN C15_Columns :
                C15_NamelessReachable(iSheet[1], index) /\ C15_RowError(index)
        ELSE C15_RowContacts

\* the cell holds nothing: no value, or a text of spaces
C18_BlankCell(cell) == cell.t = "none" \/ (cell.t = "str" /\ Strip(cell.s) = "")

\* the columns of data row i under a resolved header are all blank
C18_Blank(i) ==
    \A c \in 1..Len(iSheet[i]) :
        (c <= Len(iHeaders) /\ iHeaders[c].kind /= "none")
            => C18_BlankCell(iSheet[i][c])

\* the data rows of the sheet that are not blank
C18_Filled == {i \in 1..Len(iSheet) : ~C18_Blank(i)}

\* the k-th of them
C18_NthFilled(k) ==
    CHOOSE i \in C18_Filled : Cardinality({j \in C18_Filled : j <= i}) = k

\* C18: rows whose resolved columns are all blank are skipped: they give no
\* record and no error and are not counted in total, and every record still
\* carries the number of its own sheet row (the first data row is row 2), so
\* that the error of a later row names the right sheet row
C18_BlankRowsSkipped ==
    HeadersPassed =>
        /\ \A i \in 1..iRead :
              C18_Blank(i) =>
                  /\ \A k \in 1..Len(iRows) : iRows[k].row_number /= i + 1
                  /\ EntriesAbout(i + 1) = {}
        /\ Len(iRows) <= Cardinality(C18_Filled)
        /\ \A k \in 1..Len(iRows) : iRows[k].row_number = C18_NthFilled(k) + 1
        /\ (iPc = "stored" /\ Len(iRows) = Cardinality(C18_Filled))
              => StoredReport.total = Cardinality(C18_Filled)
        /\ \A j \in 1..Len(iErrors) :
              \E k \in 1..iDone :
                  C5_StartsWithRow(iErrors[j], C18_NthFilled(k) + 1)

\* a sheet of a filled row, a blank row and a filled row, the last refused
\* by the import loop: two records numbered 2 and 4, total 2, the error
\* about sheet row 4
C18_Witness ==
    /\ iPc = "stored"
    /\ Len(iSheet) = 3
    /\ C18_Blank(2) /\ ~C18_Blank(1) /\ ~C18_Blank(3)
    /\ Len(iRows) = 2
    /\ iRows[1].row_number = 2 /\ iRows[2].row_number = 4
    /\ StoredReport.total = 2
    /\ StoredReport.created = 1
    /\ iErrorRows = <<4>>
    /\ C5_StartsWithRow(StoredReport.errors[1], 4)

\* the quantity-like columns under QuantityHeaderRow, listed by hand: the
\* column, the field of the record and the name of the field in messages
C19_Columns(kind) ==
    CASE kind = "filters" ->
            {[column |-> 4, field |-> "quantity", label |-> "quantité"],
             [column |-> 5, field |-> "pocket_count", label |-> "nombre de poches"]}
      [] kind = "belts" ->
            {[column |-> 4, field |-> "quantity", label |-> "quantité"]}
      [] kind = "services" ->
            {[column |-> 4, field |-> "frequency_interval",
              label |-> "intervalle de fréquence"],
             [column |-> 5, field |-> "client_id", label |-> "identifiant client"]}
      [] OTHER -> {}

\* the whole number a text denotes when it is written as a plain integer or
\* as an integer followed by a dot and zeros, 0 when it is written otherwise
\* or is negative
C19_TextValue(text) ==
    LET body == IF StartsWith(text, "+") \/ StartsWith(text, "-")
                THEN DropFirst(text, 1) ELSE text
        dot == IndexOf(body, ".")
        whole == IF dot = 0 THEN body ELSE SubSeq(body, 1, dot - 1)
        zeros == IF dot = 0 THEN "" ELSE DropFirst(body, dot)
    IN  IF /\ Len(whole) >= 1
           /\ \A i \in 1..Len(whole) : CharAt(whole, i) \in Digits
           /\ \A i \in 1..Len(zeros) : CharAt(zeros, i) = "0"
           /\ ~StartsWith(text, "-")
        THEN DigitsValue(whole) ELSE 0

\* the whole number a cell denotes, 0 when it denotes none or one below 1
C19_CellValue(cell) ==
    CASE cell.t = "int" -> IF cell.n >= 1 THEN cell.n ELSE 0
      [] cell.t = "float" ->
            IF cell.n >= Scale /\ cell.n % Scale = 0 THEN cell.n \div Scale ELSE 0
      [] cell.t = "str" -> C19_TextValue(Strip(cell.s))
      [] OTHER -> 0

\* the value of the cell as a message quotes it
C19_RawText(cell) ==
    CASE cell.t = "int" -> (IF cell.n < 0 THEN "-" ELSE "")
                           \o ToString(IF cell.n < 0 THEN 0 - cell.n ELSE cell.n)
      [] cell = FloatCell((5 * Scale) \div 2) -> "2.5"
      [] cell.t = "float" -> (IF cell.n < 0 THEN "-" ELSE "")
                           \o ToString((IF cell.n < 0 THEN 0 - cell.n ELSE cell.n)
                                       \div Scale)
      [] cell.t = "str" -> Strip(cell.s)

\* text holds part
C19_Contains(text, part) ==
    \E i \in 1..Len(text) : StartsWith(DropFirst(text, i - 1), part)

\* the quantity-like columns of the row with a cell that is refused
C19_Refused(row) ==
    {f \in C19_Columns(iKind) :
        ~C18_BlankCell(row[f.column]) /\ C19_CellValue(row[f.column]) < 1}

\* the row with quantity-like cells was read
C19_RowRead ==
    /\ iKind \in {"filters", "belts", "services"}
    /\ iHeaderRow = QuantityHeaderRow(iKind)
    /\ iRead = 1 /\ Len(iSheet) = 1
    /\ iSheet[1] \in QuantityRows(iKind)

C19_ZeroRefused ==
    /\ C19_RowRead
    /\ iKind = "belts"
    /\ iSheet[1][4] = StrCell("0.0")
    /\ iPc = "stored"
    /\ StoredReport.errors = <<"Ligne 2: valeur de quantité invalide '0.0'.">>

\* the number of digits header starts with
RECURSIVE C20_LeadingDigits(_)
C20_LeadingDigits(header) ==
    IF Len(header) = 0 \/ CharAt(header, 1) \notin Digits THEN 0
    ELSE 1 + C20_LeadingDigits(DropFirst(header, 1))

\* header has the shape contact_<digits>_<subfield>, <digits> a positive
\* integer and <subfield> a key of the alias table of the contact fields:
\* None, or the index and the subfield
C20_Shape(header) ==
    LET rest == DropFirst(header, 8)
        digits == C20_LeadingDigits(rest)
        index == DigitsValue(SubSeq(rest, 1, digits))
        subfield == DropFirst(rest, digits + 1)
    IN  IF /\ StartsWith(header, "contact_")
           /\ digits >= 1
           /\ StartsWith(DropFirst(rest, digits), "_")
           /\ subfield \in DOMAIN CONTACT_FIELD_ALIASES
           /\ index >= 1
        THEN Some([index |-> index, subfield |-> subfield])
        ELSE None

\* the same shape with the index 0 allowed, the underscore after contact
\* optional and anything allowed after the subfield
C20_LooseShape(header) ==
    LET rest == IF StartsWith(header, "contact_") THEN DropFirst(header, 8)
                ELSE DropFirst(header, 7)
        digits == C20_LeadingDigits(rest)
        after == DropFirst(rest, digits + 1)
        subfield == SubSeq(after, 1, PrefixLen(after, WordChars))
    IN  IF /\ StartsWith(header, "contact")
           /\ digits >= 1
           /\ StartsWith(DropFirst(rest, digits), "_")
           /\ subfield \in DOMAIN CONTACT_FIELD_ALIASES
        THEN Some([index |-> DigitsValue(SubSeq(rest, 1, digits)),
                   subfield |-> subfield])
        ELSE None

\* nothing of the third column of a sheet of ContactHeaderCases is in a
\* record
C20_ColumnIgnored ==
    iHeaderRow \in {c[1] : c \in ContactHeaderCases} =>
        \A k \in 1..Len(iRows) :
            /\ iRows[k].contacts = <<>>
            /\ \A f \in {"email", "phone", "tags", "status"} : iRows[k][f] = None

\* header i of the sheet, normalized to header, resolves as found tells:
\* found is None or the index and the subfield of a numbered contact
C20_ResolvesAs(i, header, found) ==
    IF header \in DOMAIN COLUMN_ALIASES
    THEN iHeaders[i] = Direct(COLUMN_ALIASES[header])
    ELSE IF found /= None
    THEN iHeaders[i] = Grouped(found[1].index,
                               CONTACT_FIELD_ALIASES[found[1].subfield])
    ELSE iHeaders[i] = Unresolved /\ C20_ColumnIgnored

\* C20: a normalized header of a clients sheet resolves to the slot of a
\* numbered contact (contact, index, subfield) only if it has the shape
\* contact_<digits>_<subfield> with <digits> a positive integer (index >= 1)
\* and <subfield> a key of the alias table of the contact fields; an exact
\* match in the table of the direct aliases takes precedence; every other
\* header is unresolved and its column is ignored
C20_GroupedHeaderShape ==
    (iKind = "clients" /\ iHeaders /= <<>>) =>
        \A i \in 1..Len(iHeaderRow) :
            C20_ResolvesAs(i, _normalize_header(iHeaderRow[i]),
                           C20_Shape(_normalize_header(iHeaderRow[i])))

\* the same with the index 0 allowed, the underscore after contact optional
\* and anything allowed after the subfield
C20_GroupedHeaderLooseShape ==
    (iKind = "clients" /\ iHeaders /= <<>>) =>
        \A i \in 1..Len(iHeaderRow) :
            C20_ResolvesAs(i, _normalize_header(iHeaderRow[i]),
                           C20_LooseShape(_normalize_header(iHeaderRow[i])))

\* C17: when the processing of a clients row fails at or after the call
\* that creates its record, the database after the row equals the database
\* before it: no Entreprise created or updated for the row survives
C17_FailedRowLeavesStore ==
    [][(/\ iKind = "clients"
        /\ Len(iCalls') = Len(iCalls) + 1
        /\ iCalls'[Len(iCalls')].outcome /= "created")
            => UNCHANGED svars]_vars

\* a created row leaves its Entreprise and its Client
C17_CreatedRowStored ==
    [][(/\ iKind = "clients"
        /\ Len(iCalls') = Len(iCalls) + 1
        /\ iCalls'[Len(iCalls')].outcome = "created")
            => /\ Len(sClients') = Len(sClients) + 1
               /\ sClients'[Len(sClients')].company_name \in DOMAIN sEntreprises']_vars

----------------------------------------------------------------------------
(* Import of a workload grid: importers.parse_workload_plan_excel,         *)
(* app.import_workload_plan_excel and crud.replace_workload_plan           *)

\* the days of the calendar of a site
DAY_COUNT == 364

\* the last column iter_rows reads: the site name and DAY_COUNT days
MAX_COL == 365

\* the message of an unreadable file, up to the text of the exception
ERR_UNREADABLE == "Impossible de lire le fichier Excel: "
ERR_NO_DATA == "Le fichier ne contient aucune donnée."
ERR_NO_SITE == "Aucun site valide trouvé dans le fichier."

\* the data rows of a workload sheet: the site name, then the cells of the
\* first days (the other days are empty)
PlanRows ==
    {<<StrCell("Lyon"), IntCell(4), StrCell("ok:6")>>,
     <<StrCell(" Lyon "), StrCell("bad")>>,
     <<StrCell("Nice"), NoneCell, IntCell(8)>>,
     <<StrCell("Paris"), StrCell("abc")>>,
     <<NoneCell, IntCell(4)>>,
     <<NoneCell, StrCell("  ")>>}

\* the sheets of at most n data rows
PlanSheets(n) == UNION {[1..k -> PlanRows] : k \in 0..n}

\* a row that reaches past the last day: the site name, the cell of the last
\* day (column 365) and a cell in column 366
WideRow(site, last_day, beyond) ==
    [k \in 1..(MAX_COL + 1) |->
        IF k = 1 THEN site
        ELSE IF k = MAX_COL THEN last_day
        ELSE IF k = MAX_COL + 1 THEN beyond
        ELSE NoneCell]

WideRows ==
    {WideRow(StrCell("Metz"), StrCell("ok"), StrCell("abc")),
     WideRow(StrCell("Metz"), IntCell(8), IntCell(4)),
     WideRow(NoneCell, NoneCell, IntCell(4))}

\* the sheets that hold a wide row, alone or after another row
WidePlanSheets ==
    {<<w>> : w \in WideRows} \cup {<<r, w>> : r \in PlanRows, w \in WideRows}

\* sheet.iter_rows(min_row=2, max_col=365, values_only=True): the values of
\* the first 365 columns of a row
iter_rows(row) == SubSeq(row, 1, IF Len(row) < MAX_COL THEN Len(row) ELSE MAX_COL)

\* the plans stored before the upload
StoredPlans ==
    {<<>>,
     <<[name |-> "Ancien", position |-> 1,
        cells |-> <<[day_index |-> 0, value |-> "warn"]>>]>>}

\* any(isinstance(value, (int, float)) or (isinstance(value, str) and
\* value.strip()) for value in row_values)
PlanRowFilled(row_values) ==
    \E k \in 1..Len(row_values) :
        \/ row_values[k].t \in {"int", "float"}
        \/ row_values[k].t = "str" /\ Strip(row_values[k].s) /= ""

\* the body of the row loop of parse_workload_plan_excel:
\* [outcome \in {"skip", "error", "site"}, error, site, cells]
PlanRow(row_values, row_index, seen_sites) ==
    LET skip == [outcome |-> "skip", error |-> "", site |-> "", cells |-> <<>>]
        failed(message) ==
            [outcome |-> "error", error |-> message, site |-> "", cells |-> <<>>]
        days(site, decoded) ==
            IF \E d \in 1..DAY_COUNT : decoded[d].error /= ""
            THEN failed(decoded[CHOOSE d \in 1..DAY_COUNT :
                                    /\ decoded[d].error /= ""
                                    /\ \A e \in 1..(d - 1) : decoded[e].error = ""].error)
            ELSE [outcome |-> "site", error |-> "", site |-> site,
                  cells |-> [d \in 1..DAY_COUNT |-> decoded[d].value]]
        named(site_name) ==
            IF ~TruthyStr(site_name)
            THEN failed("Ligne " \o PyStrInt(row_index) \o ": nom de site manquant.")
            ELSE IF Strip(site_name[1]) \in seen_sites
            THEN failed("Ligne " \o PyStrInt(row_index) \o ": le site '"
                        \o Strip(site_name[1]) \o "' est présent plusieurs fois.")
            ELSE days(Strip(site_name[1]),
                      [d \in 1..DAY_COUNT |->
                        _normalize_workload_cell_value(
                            IF d < Len(row_values) THEN row_values[d + 1] ELSE NoneCell,
                            row_index, d + 1)])
    IN  IF Len(row_values) = 0 THEN skip
        ELSE IF ~PlanRowFilled(row_values) THEN skip
        ELSE named(_coerce_value(row_values[1]))

\* mutant: the days are numbered from one
StoredCells_days_from_one(values) ==
    SelectSeq([d \in 1..(IF Len(values) < DAY_COUNT THEN Len(values) ELSE DAY_COUNT) |->
                  [day_index |-> d,
                   value |-> IF values[d] = None THEN "" ELSE Strip(values[d][1])]],
              LAMBDA cell : cell.value /= "")

\* the WorkloadCell rows replace_workload_plan adds for one site
StoredCells(values) ==
    SelectSeq([d \in 1..(IF Len(values) < DAY_COUNT THEN Len(values) ELSE DAY_COUNT) |->
                  [day_index |-> d - 1,
                   value |-> IF values[d] = None THEN "" ELSE Strip(values[d][1])]],
              LAMBDA cell : cell.value /= "")

\* crud.replace_workload_plan after the two deletes: the sites added
RECURSIVE replace_workload_plan(_, _, _, _, _)
replace_workload_plan(site_names, cells_map, position, seen_names, acc) ==
    LET added(normalized) ==
            IF normalized = "" \/ normalized \in seen_names
            THEN replace_workload_plan(site_names, cells_map, position + 1,
                                       seen_names, acc)
            ELSE replace_workload_plan(
                    site_names, cells_map, position + 1,
                    seen_names \cup {normalized},
                    Append(acc,
                           [name |-> normalized, position |-> position + 1,
                            cells |-> IF normalized \in DOMAIN cells_map
                                      THEN StoredCells(cells_map[normalized])
                                      ELSE <<>>]))
    IN  IF position >= Len(site_names) THEN acc
        ELSE added(Strip(site_names[position + 1]))

PlanIdle ==
    /\ pPc = "idle"
    /\ pFilename = ""
    /\ pReadable = TRUE
    /\ pSheet = <<>>
    /\ pRead = 0
    /\ pSites = <<>>
    /\ pCells = <<>>
    /\ pResponse = [status |-> 0, detail |-> "", sites |-> 0]
    /\ pPlan = <<>>

\* an upload: any sheet under the name import.xlsx, a sheet of one row under
\* the other names and in the files load_workbook cannot read
InitPlan ==
    /\ pPc = "upload"
    /\ pFilename \in Filenames
    /\ pReadable \in BOOLEAN
    /\ pSheet \in PlanSheets(MaxRows) \cup WidePlanSheets
    /\ (pFilename = "import.xlsx" /\ pReadable) \/ Len(pSheet) = 1
    /\ pRead = 0
    /\ pSites = <<>>
    /\ pCells = <<>>
    /\ pResponse = [status |-> 0, detail |-> "", sites |-> 0]
    /\ pPlan \in StoredPlans

\* raise HTTPException(status_code=400, detail=detail)
PlanRejected(detail) ==
    /\ pPc' = "rejected"
    /\ pResponse' = [status |-> 400, detail |-> detail, sites |-> 0]

\* import_workload_plan_excel up to the row loop of the parser: the checks
\* of file.filename, load_workbook and the check of sheet.max_row
ReceivePlanFile ==
    /\ pPc = "upload"
    /\ IF pFilename = "" THEN PlanRejected(ERR_NO_FILE)
       ELSE IF ~AllowedExtension(pFilename) THEN PlanRejected(ERR_EXTENSION)
       ELSE IF ~pReadable THEN PlanRejected(ERR_UNREADABLE)
       ELSE IF Len(pSheet) + 1 < 2 THEN PlanRejected(ERR_NO_DATA)
       ELSE pPc' = "rows" /\ UNCHANGED pResponse
    /\ UNCHANGED <<pFilename, pReadable, pSheet, pRead, pSites, pCells, pPlan>>

\* parse_workload_plan_excel: one iteration of the row loop; a ValueError
\* leaves the parser and import_workload_plan_excel answers 400 with it
ParsePlanRow ==
    LET read(parsed) ==
            CASE parsed.outcome = "skip" -> UNCHANGED <<pPc, pSites, pCells, pResponse>>
              [] parsed.outcome = "site" ->
                    /\ pSites' = Append(pSites, parsed.site)
                    /\ pCells' = [site \in DOMAIN pCells \cup {parsed.site} |->
                                    IF site = parsed.site THEN parsed.cells
                                    ELSE pCells[site]]
                    /\ UNCHANGED <<pPc, pResponse>>
              [] parsed.outcome = "error" ->
                    /\ PlanRejected(parsed.error)
                    /\ UNCHANGED <<pSites, pCells>>
    IN  /\ pPc = "rows"
        /\ pRead < Len(pSheet)
        /\ pRead' = pRead + 1
        /\ read(PlanRow(iter_rows(pSheet[pRead + 1]), pRead + 2,
                        {pSites[k] : k \in 1..Len(pSites)}))
        /\ UNCHANGED <<pFilename, pReadable, pSheet, pPlan>>

\* mutant: the stored plan is deleted before the parser has returned
PlanParserReturns_plan_deleted_first ==
    /\ pPc = "rows"
    /\ pRead = Len(pSheet)
    /\ IF pSites = <<>> THEN PlanRejected(ERR_NO_SITE)
       ELSE pPc' = "parsed" /\ UNCHANGED pResponse
    /\ pPlan' = <<>>
    /\ UNCHANGED <<pFilename, pReadable, pSheet, pRead, pSites, pCells>>

\* parse_workload_plan_excel after the row loop
PlanParserReturns ==
    /\ pPc = "rows"
    /\ pRead = Len(pSheet)
    /\ IF pSites = <<>> THEN PlanRejected(ERR_NO_SITE)
       ELSE pPc' = "parsed" /\ UNCHANGED pResponse
    /\ UNCHANGED <<pFilename, pReadable, pSheet, pRead, pSites, pCells, pPlan>>

\* count = crud.replace_workload_plan(session, sites, cells);
\* return {"sites": count}
ReplacePlan ==
    /\ pPc = "parsed"
    /\ pPlan' = replace_workload_plan(pSites, pCells, 0, {}, <<>>)
    /\ pResponse' = [status |-> 200, detail |-> "", sites |-> Len(pPlan')]
    /\ pPc' = "done"
    /\ UNCHANGED <<pFilename, pReadable, pSheet, pRead, pSites, pCells>>

----------------------------------------------------------------------------
(* Properties of the import of a workload grid *)

\* the site name of a data row, "" when the first cell holds no text
C14_SiteOf(row) == IF row[1].t = "str" THEN Strip(row[1].s) ELSE ""

\* data row i repeats the site name of an earlier row
C14_Duplicate(i) ==
    /\ C14_SiteOf(pSheet[i]) /= ""
    /\ \E j \in 1..(i - 1) : C14_SiteOf(pSheet[j]) = C14_SiteOf(pSheet[i])

\* the rows that are blank or hold a site name and well-formed cells
C14_SoundRows ==
    {<<StrCell("Lyon"), IntCell(4), StrCell("ok:6")>>,
     <<StrCell(" Lyon "), StrCell("bad")>>,
     <<StrCell("Nice"), NoneCell, IntCell(8)>>,
     <<NoneCell, StrCell("  ")>>}

\* C14: a row whose site name duplicates an earlier row's is a row-scoped
\* error: the import is not aborted, the sites of the other rows of the sheet
\* are imported.
C14_DuplicateSiteIsRowScoped ==
    (/\ pPc \in {"done", "rejected"}
     /\ pFilename /= "" /\ AllowedExtension(pFilename) /\ pReadable
     /\ \A i \in 1..Len(pSheet) : pSheet[i] \in C14_SoundRows
     /\ \E i \in 1..Len(pSheet) : C14_Duplicate(i))
        => /\ pPc = "done"
           /\ \A i \in 1..Len(pSheet) :
                (C14_SiteOf(pSheet[i]) /= "" /\ ~C14_Duplicate(i))
                    => \E k \in 1..Len(pPlan) : pPlan[k].name = C14_SiteOf(pSheet[i])

\* a sheet without a duplicate site is imported whole
C14_SoundSheetImported ==
    (/\ pPc \in {"done", "rejected"}
     /\ pFilename /= "" /\ AllowedExtension(pFilename) /\ pReadable
     /\ \A i \in 1..Len(pSheet) : pSheet[i] \in C14_SoundRows
     /\ \E i \in 1..Len(pSheet) : C14_SiteOf(pSheet[i]) /= ""
     /\ ~\E i \in 1..Len(pSheet) : C14_Duplicate(i))
        => /\ pPc = "done"
           /\ \A i \in 1..Len(pSheet) :
                C14_SiteOf(pSheet[i]) /= ""
                    => \E k \in 1..Len(pPlan) : pPlan[k].name = C14_SiteOf(pSheet[i])

\* the rows of the sheet that name a site, in the order of the sheet
C22_SiteRows == SelectSeq(pSheet, LAMBDA row : C14_SiteOf(row) /= "")

\* the token of day index d of a row: the decoded cell of column d + 2, None
\* for an empty or absent cell
C22_Token(row, d) ==
    IF d + 2 > Len(row) THEN None
    ELSE _normalize_workload_cell_value(row[d + 2], 2, d + 2).value

\* the cells of a row: day index and token of the non-empty days 0..363
C22_RowCells(row) ==
    {[day_index |-> d, value |-> C22_Token(row, d)[1]] :
        d \in {e \in 0..(DAY_COUNT - 1) : C22_Token(row, e) /= None}}

\* C22: after a successful Excel import the stored plan is exactly the sheet:
\* the stored sites are the sites of the sheet in sheet order at positions
\* 1..k, the cells of each site are the decoded non-empty tokens of its first
\* 364 day columns at day indexes 0..363, and nothing stored before remains.
C22_StoredPlanIsSheet ==
    pPc = "done" =>
        /\ pResponse.status = 200
        /\ pResponse.sites = Len(C22_SiteRows)
        /\ Len(pPlan) = Len(C22_SiteRows)
        /\ \A k \in 1..Len(pPlan) :
                /\ pPlan[k].name = C14_SiteOf(C22_SiteRows[k])
                /\ pPlan[k].position = k
                /\ {pPlan[k].cells[j] : j \in 1..Len(pPlan[k].cells)}
                        = C22_RowCells(C22_SiteRows[k])
                /\ Len(pPlan[k].cells) = Cardinality(C22_RowCells(C22_SiteRows[k]))
        /\ \A old \in StoredPlans : \A j \in 1..Len(old) :
                \A k \in 1..Len(pPlan) : pPlan[k].name /= old[j].name

\* a sheet of two sites whose second row reaches past the last day has been
\* imported: the cell of day 363 is stored, the cell of column 366 is not
C22_Witness ==
    /\ pPc = "done"
    /\ Len(pSheet) = 2
    /\ pSheet[2] = WideRow(StrCell("Metz"), StrCell("ok"), StrCell("abc"))
    /\ Len(pPlan) = 2
    /\ pPlan[2].name = "Metz"
    /\ pPlan[2].position = 2
    /\ pPlan[2].cells = <<[day_index |-> DAY_COUNT - 1, value |-> "ok"]>>

\* C23: an Excel import that fails while parsing (unreadable file, missing or
\* duplicate site name, invalid cell, no site) leaves the stored plan as it
\* was: the plan changes in no step but the one that ends a successful
\* import.
C23_FailedParseKeepsPlan == [][pPc' /= "done" => pPlan' = pPlan]_vars

\* the parser has refused a row of a readable sheet and the plan stored
\* before the upload is still there
C23_Witness ==
    /\ pPc = "rejected"
    /\ pReadable
    /\ pRead > 0
    /\ pResponse.status = 400
    /\ pResponse.detail \notin {ERR_NO_FILE, ERR_EXTENSION, ERR_NO_DATA, ERR_NO_SITE}
    /\ pPlan /= <<>>
    /\ pPlan \in StoredPlans

\* an unreadable file has been refused and the stored plan is still there
C23_UnreadableRefused ==
    /\ pPc = "rejected"
    /\ ~pReadable
    /\ pResponse.detail = ERR_UNREADABLE
    /\ pPlan /= <<>>

----------------------------------------------------------------------------
(* Import reports kept between the redirect of an import and the page that *)
(* shows them: app._store_import_report and app._consume_import_report     *)

\* the stores and consumes of a run of the model
MaxEvents == 4

\* uuid4().hex of the reports stored: each report gets an identifier that no
\* earlier report got
ReportTokens == {"3f2a", "9c1e"}

\* request.query_params.get("report") of the pages that show a report
QueryTokens == {None, Some("")} \cup {Some(t) : t \in ReportTokens}

\* the reports of the model
ImportReports ==
    {[created |-> 2, total |-> 2, errors |-> <<>>, filename |-> "import.xlsx",
      entity_label |-> "client", entity_label_plural |-> "clients"],
     [created |-> 0, total |-> 1, errors |-> <<"Ligne 2: Champ manquant">>,
      filename |-> "import.xlsx",
      entity_label |-> "prestation", entity_label_plural |-> "prestations"]}

\* reports = getattr(app.state, "import_reports", None); if reports is None:
\* reports = {}; app.state.import_reports = reports
import_reports(state) == IF state = None THEN <<>> ELSE state[1]

\* app._store_import_report: app.state.import_reports afterwards
_store_import_report(state, report_id, report) ==
    Some([t \in DOMAIN import_reports(state) \cup {report_id} |->
            IF t = report_id THEN report ELSE import_reports(state)[t]])

\* mutant: the report is read and left in the store
_consume_import_report_get(state, report_token) ==
    IF ~TruthyStr(report_token) THEN [state |-> state, returned |-> None]
    ELSE IF report_token[1] \in DOMAIN import_reports(state)
    THEN [state |-> Some(import_reports(state)),
          returned |-> Some(import_reports(state)[report_token[1]])]
    ELSE [state |-> Some(import_reports(state)), returned |-> None]

\* app._consume_import_report: [state, returned], app.state.import_reports
\* afterwards and the value returned
_consume_import_report(state, report_token) ==
    IF ~TruthyStr(report_token) THEN [state |-> state, returned |-> None]
    ELSE IF report_token[1] \in DOMAIN import_reports(state)
    THEN [state |-> Some([t \in DOMAIN import_reports(state) \ {report_token[1]} |->
                            import_reports(state)[t]]),
          returned |-> Some(import_reports(state)[report_token[1]])]
    ELSE [state |-> Some(import_reports(state)), returned |-> None]

ReportsIdle ==
    /\ rReports = Some(<<>>)
    /\ rHistory = <<>>

\* on_startup sets app.state.import_reports = {}; the attribute is unset in
\* an application whose startup event has not run
InitReports ==
    /\ rReports \in {None, Some(<<>>)}
    /\ rHistory = <<>>

\* the identifiers of the reports stored so far
IssuedTokens ==
    {rHistory[i].token[1] : i \in {j \in 1..Len(rHistory) : rHistory[j].op = "store"}}

\* an import ends with _store_import_report(...)
StoreImportReport ==
    /\ Len(rHistory) < MaxEvents
    /\ \E report \in ImportReports, report_id \in ReportTokens \ IssuedTokens :
        /\ rReports' = _store_import_report(rReports, report_id, report)
        /\ rHistory' = Append(rHistory, [op |-> "store", token |-> Some(report_id),
                                         report |-> Some(report)])

\* a page is asked for: report = _consume_import_report(request)
ConsumeImportReport ==
    /\ Len(rHistory) < MaxEvents
    /\ \E report_token \in QueryTokens :
        /\ rReports' = _consume_import_report(rReports, report_token).state
        /\ rHistory' = Append(rHistory,
                [op |-> "consume", token |-> report_token,
                 report |-> _consume_import_report(rReports, report_token).returned])

----------------------------------------------------------------------------
(* Properties of the import reports *)

\* the stores of the token of event i made before event i
C28_StoresBefore(i) ==
    {k \in 1..(i - 1) : rHistory[k].op = "store" /\ rHistory[k].token = rHistory[i].token}

\* a consume of the token of event i was made between its store and event i
C28_ConsumedBefore(i) ==
    \E k \in C28_StoresBefore(i) : \E j \in (k + 1)..(i - 1) :
        rHistory[j].op = "consume" /\ rHistory[j].token = rHistory[i].token

\* the tokens stored and not consumed since
C28_Pending ==
    {t \in ReportTokens :
        \E k \in 1..Len(rHistory) :
            /\ rHistory[k].op = "store" /\ rHistory[k].token = Some(t)
            /\ \A j \in (k + 1)..Len(rHistory) :
                    ~(rHistory[j].op = "consume" /\ rHistory[j].token = Some(t))}

\* C28: a stored report is shown at most once: the first consume with its
\* token returns exactly the report stored under that token, every later
\* consume with the same token returns nothing, and a consume leaves the
\* reports stored under the other tokens in place and as they were stored.
C28_ReportShownOnce ==
    /\ \A i \in 1..Len(rHistory) :
            rHistory[i].op = "consume" =>
                IF C28_StoresBefore(i) /= {} /\ ~C28_ConsumedBefore(i)
                THEN \A k \in C28_StoresBefore(i) : rHistory[i].report = rHistory[k].report
                ELSE rHistory[i].report = None
    /\ DOMAIN import_reports(rReports) = C28_Pending
    /\ \A k \in 1..Len(rHistory) :
            (rHistory[k].op = "store" /\ rHistory[k].token[1] \in C28_Pending)
                => Some(import_reports(rReports)[rHistory[k].token[1]]) = rHistory[k].report

\* two reports were stored, the first was consumed twice: shown the first
\* time, nothing the second time, and the other report is still stored
C28_Witness ==
    /\ Len(rHistory) = 4
    /\ rHistory[1].op = "store" /\ rHistory[2].op = "store"
    /\ rHistory[3] = [op |-> "consume", token |-> rHistory[1].token,
                      report |-> rHistory[1].report]
    /\ rHistory[4] = [op |-> "consume", token |-> rHistory[1].token, report |-> None]
    /\ DOMAIN import_reports(rReports) = {rHistory[2].token[1]}
    /\ Some(import_reports(rReports)[rHistory[2].token[1]]) = rHistory[2].report

----------------------------------------------------------------------------
(* Workload sites and cells in the database: crud.create_workload_site,    *)
(* rename_workload_site, delete_workload_site, bulk_update_workload_cells  *)
(* and replace_workload_plan behind the /api/workload-plan routes          *)

\* the largest WorkloadSite.id and the largest position a run of the model
\* reaches, and the longest batch of cell updates
MaxSiteId == 2
MaxPosition == 3
MaxBatch == 2

ERR_SITE_NAME_REQUIRED == "Le nom du site est requis"
ERR_SITE_EXISTS == "Ce site existe déjà"
ERR_NAME_USED == "Ce nom est déjà utilisé"
ERR_SITE_NOT_FOUND == "Site introuvable"
ERR_DAY_INDEX == "Indice de jour invalide"
ERR_INTEGRITY == "IntegrityError"

\* payload.name of the create and rename requests
SiteNames == {"Lyon", " Lyon ", "Nice", "  "}

\* site_id of the requests: the identifiers of the model and one past them
SiteIds == 1..(MaxSiteId + 1)

\* the updates of the cell batches: site_id, day_index and value
CellUpdates ==
    {[site_id |-> 1, day_index |-> 0, value |-> Some(" warn ")],
     [site_id |-> 1, day_index |-> 0, value |-> Some("bad")],
     [site_id |-> 1, day_index |-> 0, value |-> None],
     [site_id |-> 1, day_index |-> DAY_COUNT - 1, value |-> Some("ok")],
     [site_id |-> 1, day_index |-> DAY_COUNT, value |-> Some("bad")],
     [site_id |-> 1, day_index |-> 0 - 1, value |-> Some("warn")],
     [site_id |-> 2, day_index |-> 0, value |-> Some("bad")],
     [site_id |-> 2, day_index |-> 0, value |-> Some("  ")],
     [site_id |-> MaxSiteId + 1, day_index |-> 0, value |-> Some("warn")]}

\* payload.updates: the batches of at most MaxBatch updates
CellBatches == UNION {[1..k -> CellUpdates] : k \in 0..MaxBatch}

\* a list of DAY_COUNT + 1 values: the last day and one value past it
LongValues ==
    [d \in 1..(DAY_COUNT + 1) |->
        IF d = DAY_COUNT THEN Some("ok")
        ELSE IF d = DAY_COUNT + 1 THEN Some("bad")
        ELSE None]

\* payload.sites and payload.cells of POST /api/workload-plan/import, the
\* cells as the (name, values) pairs of the dict in their order
PlanPayloads ==
    {[sites |-> <<>>, cells |-> <<>>],
     [sites |-> <<"Nice">>, cells |-> <<>>],
     [sites |-> <<"Lyon", " Lyon ", "Nice">>,
      cells |-> << <<"Lyon", <<Some(" warn "), None, Some(" ")>> >>,
                   <<"Nice ", LongValues>> >>],
     [sites |-> <<"  ", "Nice">>,
      cells |-> << <<"Nice", <<Some("bad")>> >>,
                   <<" Nice", <<Some(" ok ")>> >>,
                   <<"Metz", <<Some("bad")>> >> >>]}

\* the rows of a table as the number of rows of each content
NoRows == <<>>

RowAdded(rows, row) ==
    [r \in DOMAIN rows \cup {row} |->
        IF r = row THEN (IF row \in DOMAIN rows THEN rows[row] + 1 ELSE 1)
        ELSE rows[r]]

RowDeleted(rows, row) ==
    IF rows[row] > 1 THEN [rows EXCEPT ![row] = rows[row] - 1]
    ELSE [r \in DOMAIN rows \ {row} |-> rows[r]]

\* the identifier SQLite gives the next WorkloadSite row: one more than the
\* largest rowid of the table
NextSiteId(sites) ==
    IF sites = {} THEN 1
    ELSE 1 + CHOOSE n \in {s.id : s \in sites} : \A s \in sites : s.id <= n

\* select(func.max(WorkloadSite.position)), 0 for an empty table
max_position(sites) ==
    IF sites = {} THEN 0
    ELSE CHOOSE n \in {s.position : s \in sites} : \A s \in sites : s.position <= n

\* create_workload_site up to its insert: the ValueError raised, "" when none
create_workload_site_checks(sites, name) ==
    IF Strip(name) = "" THEN ERR_SITE_NAME_REQUIRED
    ELSE IF \E s \in sites : s.name = Strip(name) THEN ERR_SITE_EXISTS
    ELSE ""

\* session.add(site); session.commit(): the unique constraint of
\* WorkloadSite.name refuses a second row of a name
site_inserted(sites, name, position) ==
    IF \E s \in sites : s.name = name
    THEN [error |-> ERR_INTEGRITY, sites |-> sites]
    ELSE [error |-> "",
          sites |-> sites \cup {[id |-> NextSiteId(sites), name |-> name,
                                 position |-> position]}]

\* mutant: a new site takes the place of the last one
create_workload_site_at_max_position(sites, name) ==
    IF create_workload_site_checks(sites, name) /= ""
    THEN [error |-> create_workload_site_checks(sites, name), sites |-> sites]
    ELSE site_inserted(sites, Strip(name),
                       IF sites = {} THEN 1 ELSE max_position(sites))

\* crud.create_workload_site: [error, sites]
create_workload_site(sites, name) ==
    IF create_workload_site_checks(sites, name) /= ""
    THEN [error |-> create_workload_site_checks(sites, name), sites |-> sites]
    ELSE site_inserted(sites, Strip(name), max_position(sites) + 1)

\* mutant: a site may take the name of another site
rename_workload_site_unchecked(sites, site_id, new_name) ==
    IF ~\E s \in sites : s.id = site_id
    THEN [found |-> FALSE, error |-> "", sites |-> sites]
    ELSE IF Strip(new_name) = ""
    THEN [found |-> TRUE, error |-> ERR_SITE_NAME_REQUIRED, sites |-> sites]
    ELSE [found |-> TRUE, error |-> "",
          sites |-> {IF s.id = site_id THEN [s EXCEPT !.name = Strip(new_name)]
                     ELSE s : s \in sites}]

\* crud.rename_workload_site with a name and no position: [found, error, sites]
rename_workload_site(sites, site_id, new_name) ==
    IF ~\E s \in sites : s.id = site_id
    THEN [found |-> FALSE, error |-> "", sites |-> sites]
    ELSE IF Strip(new_name) = ""
    THEN [found |-> TRUE, error |-> ERR_SITE_NAME_REQUIRED, sites |-> sites]
    ELSE IF \E s \in sites : s.name = Strip(new_name) /\ s.id /= site_id
    THEN [found |-> TRUE, error |-> ERR_NAME_USED, sites |-> sites]
    ELSE [found |-> TRUE, error |-> "",
          sites |-> {IF s.id = site_id THEN [s EXCEPT !.name = Strip(new_name)]
                     ELSE s : s \in sites}]

\* mutant: the cells of a deleted site are left in the table
delete_workload_site_no_cascade(sites, cells, site_id) ==
    IF ~\E s \in sites : s.id = site_id
    THEN [found |-> FALSE, sites |-> sites, cells |-> cells]
    ELSE [found |-> TRUE,
          sites |-> {s \in sites : s.id /= site_id},
          cells |-> cells]

\* crud.delete_workload_site: [found, sites, cells]; the relationship
\* WorkloadSite.cells cascades the delete to the cells of the site
delete_workload_site(sites, cells, site_id) ==
    IF ~\E s \in sites : s.id = site_id
    THEN [found |-> FALSE, sites |-> sites, cells |-> cells]
    ELSE [found |-> TRUE,
          sites |-> {s \in sites : s.id /= site_id},
          cells |-> [row \in {r \in DOMAIN cells : r.site_id /= site_id} |->
                        cells[row]]]

\* the body of the loop of bulk_update_workload_cells after the check of
\* day_index: the rows of the session after one item. first() of several rows
\* of a (site, day) pair is any of them
cell_updated(cells, item) ==
    LET found == {row \in DOMAIN cells :
                    row.site_id = item.site_id /\ row.day_index = item.day_index}
        set(normalized, cell) ==
            IF normalized /= ""
            THEN IF found /= {}
                 THEN RowAdded(RowDeleted(cells, cell),
                               [cell EXCEPT !.value = normalized])
                 ELSE RowAdded(cells, [site_id |-> item.site_id,
                                       day_index |-> item.day_index,
                                       value |-> normalized])
            ELSE IF found /= {} THEN RowDeleted(cells, cell)
            ELSE cells
    IN  set(IF item.value = None THEN "" ELSE Strip(item.value[1]),
            IF found = {} THEN item ELSE CHOOSE row \in found : TRUE)

\* the loop of bulk_update_workload_cells from item k on: [error, cells], the
\* ValueError raised and the rows of the session
RECURSIVE cell_updates_applied(_, _, _)
cell_updates_applied(cells, items, k) ==
    IF k > Len(items) THEN [error |-> "", cells |-> cells]
    ELSE IF ~(0 <= items[k].day_index /\ items[k].day_index < DAY_COUNT)
    THEN [error |-> ERR_DAY_INDEX, cells |-> cells]
    ELSE cell_updates_applied(cell_updated(cells, items[k]), items, k + 1)

\* mutant: the items before an invalid day index are committed
bulk_update_workload_cells_commit_each(sites, cells, items) ==
    IF items = <<>> THEN [error |-> "", cells |-> cells, updated |-> 0]
    ELSE IF \E k \in 1..Len(items) : ~\E s \in sites : s.id = items[k].site_id
    THEN [error |-> ERR_SITE_NOT_FOUND, cells |-> cells, updated |-> 0]
    ELSE IF cell_updates_applied(cells, items, 1).error /= ""
    THEN [error |-> cell_updates_applied(cells, items, 1).error,
          cells |-> cell_updates_applied(cells, items, 1).cells, updated |-> 0]
    ELSE [error |-> "", cells |-> cell_updates_applied(cells, items, 1).cells,
          updated |-> Len(items)]

\* crud.bulk_update_workload_cells and the end of the request:
\* [error, cells, updated], the committed rows afterwards. A ValueError leaves
\* the function before session.commit() and the session of get_session is
\* closed with the request, which rolls its changes back
bulk_update_workload_cells(sites, cells, items) ==
    IF items = <<>> THEN [error |-> "", cells |-> cells, updated |-> 0]
    ELSE IF \E k \in 1..Len(items) : ~\E s \in sites : s.id = items[k].site_id
    THEN [error |-> ERR_SITE_NOT_FOUND, cells |-> cells, updated |-> 0]
    ELSE IF cell_updates_applied(cells, items, 1).error /= ""
    THEN [error |-> cell_updates_applied(cells, items, 1).error,
          cells |-> cells, updated |-> 0]
    ELSE [error |-> "", cells |-> cell_updates_applied(cells, items, 1).cells,
          updated |-> Len(items)]

\* normalized_cells of replace_workload_plan: the values of each stripped
\* name, those of the last pair of a name
normalized_cells(cells_items) ==
    [name \in {Strip(cells_items[i][1]) : i \in 1..Len(cells_items)} |->
        cells_items[CHOOSE i \in 1..Len(cells_items) :
                        /\ Strip(cells_items[i][1]) = name
                        /\ \A j \in (i + 1)..Len(cells_items) :
                                Strip(cells_items[j][1]) /= name][2]]

\* the WorkloadSite rows of a plan replace_workload_plan has added to the
\* emptied tables
plan_sites(plan) ==
    {[id |-> k, name |-> plan[k].name, position |-> plan[k].position] :
        k \in 1..Len(plan)}

\* the WorkloadCell rows of a plan replace_workload_plan has added
plan_cells(plan) ==
    [row \in UNION {{[site_id |-> k, day_index |-> plan[k].cells[j].day_index,
                      value |-> plan[k].cells[j].value] :
                        j \in 1..Len(plan[k].cells)} : k \in 1..Len(plan)} |-> 1]

NoRequest == [pc |-> "idle", name |-> "", position |-> 0]

\* the two create requests that may be in progress at once
Requests == {"first", "second"}

SitesIdle ==
    /\ tSites = {}
    /\ tCells = NoRows
    /\ tRequests = [r \in Requests |-> NoRequest]
    /\ tResponse = [op |-> "", status |-> 0, detail |-> ""]

\* the tables of a new database
InitSites == SitesIdle

\* POST /api/workload-plan/sites, create_workload_plan_site
CreateSite ==
    \E name \in SiteNames :
        /\ NextSiteId(tSites) <= MaxSiteId
        /\ max_position(tSites) < MaxPosition
        /\ tSites' = create_workload_site(tSites, name).sites
        /\ tResponse' =
            [op |-> "create",
             status |-> IF create_workload_site(tSites, name).error = ""
                        THEN 201 ELSE 400,
             detail |-> create_workload_site(tSites, name).error]
        /\ UNCHANGED <<tCells, tRequests>>

\* PATCH /api/workload-plan/sites/{site_id}, rename_workload_plan_site
RenameSite ==
    \E site_id \in SiteIds, name \in SiteNames :
        /\ tSites' = rename_workload_site(tSites, site_id, name).sites
        /\ tResponse' =
            [op |-> "rename",
             status |-> IF rename_workload_site(tSites, site_id, name).error /= ""
                        THEN 400
                        ELSE IF rename_workload_site(tSites, site_id, name).found
                        THEN 200 ELSE 404,
             detail |-> IF rename_workload_site(tSites, site_id, name).found
                        THEN rename_workload_site(tSites, site_id, name).error
                        ELSE ERR_SITE_NOT_FOUND]
        /\ UNCHANGED <<tCells, tRequests>>

\* DELETE /api/workload-plan/sites/{site_id}, delete_workload_plan_site
DeleteSite ==
    \E site_id \in SiteIds :
        /\ tSites' = delete_workload_site(tSites, tCells, site_id).sites
        /\ tCells' = delete_workload_site(tSites, tCells, site_id).cells
        /\ tResponse' =
            IF delete_workload_site(tSites, tCells, site_id).found
            THEN [op |-> "delete", status |-> 204, detail |-> ""]
            ELSE [op |-> "delete", status |-> 404, detail |-> ERR_SITE_NOT_FOUND]
        /\ UNCHANGED tRequests

\* POST /api/workload-plan/cells, update_workload_plan_cells
UpdateCells ==
    \E items \in CellBatches :
        /\ tCells' = bulk_update_workload_cells(tSites, tCells, items).cells
        /\ tResponse' =
            [op |-> "cells",
             status |-> IF bulk_update_workload_cells(tSites, tCells, items).error = ""
                        THEN 200 ELSE 400,
             detail |-> bulk_update_workload_cells(tSites, tCells, items).error]
        /\ UNCHANGED <<tSites, tRequests>>

\* POST /api/workload-plan/import, import_workload_plan
ImportPlan ==
    \E payload \in PlanPayloads :
        /\ tSites' = plan_sites(replace_workload_plan(
                        payload.sites, normalized_cells(payload.cells), 0, {}, <<>>))
        /\ tCells' = plan_cells(replace_workload_plan(
                        payload.sites, normalized_cells(payload.cells), 0, {}, <<>>))
        /\ tResponse' = [op |-> "import", status |-> 200, detail |-> ""]
        /\ UNCHANGED tRequests

\* create_workload_site of one of two concurrent requests, up to the read of
\* the largest position
BeginCreateSite(r) ==
    \E name \in SiteNames :
        /\ tRequests[r].pc = "idle"
        /\ max_position(tSites) < MaxPosition
        /\ IF create_workload_site_checks(tSites, name) /= ""
           THEN /\ tResponse' = [op |-> "create", status |-> 400,
                                 detail |-> create_workload_site_checks(tSites, name)]
                /\ UNCHANGED tRequests
           ELSE /\ tRequests' = [tRequests EXCEPT ![r] =
                                    [pc |-> "insert", name |-> Strip(name),
                                     position |-> max_position(tSites) + 1]]
                /\ UNCHANGED tResponse
        /\ UNCHANGED <<tSites, tCells>>

\* the rest of create_workload_site of that request: the insert and the commit
CommitCreateSite(r) ==
    /\ tRequests[r].pc = "insert"
    /\ NextSiteId(tSites) <= MaxSiteId
    /\ tSites' = site_inserted(tSites, tRequests[r].name, tRequests[r].position).sites
    /\ tResponse' =
        IF site_inserted(tSites, tRequests[r].name, tRequests[r].position).error = ""
        THEN [op |-> "create", status |-> 201, detail |-> ""]
        ELSE [op |-> "create", status |-> 500, detail |-> ERR_INTEGRITY]
    /\ tRequests' = [tRequests EXCEPT ![r] = NoRequest]
    /\ UNCHANGED tCells

----------------------------------------------------------------------------
(* Properties of the workload sites and cells *)

\* an update of the batch names a site that does not exist or a day index
\* outside 0..363
C24_Offending(items) ==
    \E k \in 1..Len(items) :
        \/ ~\E s \in tSites : s.id = items[k].site_id
        \/ items[k].day_index \notin 0..363

\* the last update of the batch for the (site, day) pair of a row, 0 when the
\* batch has none
C24_Last(items, row) ==
    IF \E k \in 1..Len(items) :
            items[k].site_id = row.site_id /\ items[k].day_index = row.day_index
    THEN CHOOSE k \in 1..Len(items) :
            /\ items[k].site_id = row.site_id /\ items[k].day_index = row.day_index
            /\ \A j \in (k + 1)..Len(items) :
                    ~(items[j].site_id = row.site_id
                      /\ items[j].day_index = row.day_index)
    ELSE 0

\* the value an update asks for, "" for a blank one
C24_Asked(item) == IF item.value = None THEN "" ELSE Strip(item.value[1])

\* the cells after every update of the batch has been applied in order: the
\* cells of the pairs no update names as they were, and one cell for every
\* pair whose last update is not blank, with the value of that update
C24_Applied(items) ==
    [row \in {r \in DOMAIN tCells : C24_Last(items, r) = 0}
             \cup {[site_id |-> items[k].site_id, day_index |-> items[k].day_index,
                    value |-> C24_Asked(items[k])] :
                        k \in {j \in 1..Len(items) :
                                /\ C24_Last(items, items[j]) = j
                                /\ C24_Asked(items[j]) /= ""}} |->
        IF C24_Last(items, row) = 0 THEN tCells[row] ELSE 1]

\* C24: a bulk update of cells is all-or-nothing: a batch with an update that
\* names a missing site or a day index outside 0..363 fails and leaves the
\* stored cells exactly as they were, the updates before the offending one
\* included; any other batch is applied whole and in order (a blank value
\* deletes the cell, a later update of the same cell wins).
C24_BulkUpdateAllOrNothing ==
    \A items \in CellBatches :
        IF C24_Offending(items)
        THEN /\ bulk_update_workload_cells(tSites, tCells, items).error /= ""
             /\ bulk_update_workload_cells(tSites, tCells, items).cells = tCells
        ELSE /\ bulk_update_workload_cells(tSites, tCells, items).error = ""
             /\ bulk_update_workload_cells(tSites, tCells, items).cells
                    = C24_Applied(items)

\* a batch has been refused for its day index while cells were stored
C24_Witness ==
    /\ tResponse = [op |-> "cells", status |-> 400, detail |-> ERR_DAY_INDEX]
    /\ tCells /= NoRows
    /\ \E s \in tSites : s.id = 1

\* a batch has been applied and left a cell of the last day
C24_BatchApplied ==
    /\ tResponse = [op |-> "cells", status |-> 200, detail |-> ""]
    /\ [site_id |-> 1, day_index |-> 363, value |-> "ok"] \in DOMAIN tCells
    /\ [site_id |-> 1, day_index |-> 0, value |-> "warn"] \in DOMAIN tCells


\* C25: after any sequence of site creations, renames, deletions, bulk cell
\* updates and plan replacements, every stored cell has a day index in
\* 0..363 and a non-empty value, belongs to a site that still exists, and is
\* the only cell of its (site, day) pair.
C25_CellsWellFormed ==
    \A row \in DOMAIN tCells :
        /\ row.day_index \in 0..363
        /\ row.value /= ""
        /\ \E s \in tSites : s.id = row.site_id
        /\ tCells[row] = 1
        /\ \A other \in DOMAIN tCells :
                (other.site_id = row.site_id /\ other.day_index = row.day_index)
                    => other = row

\* a site that had a cell has been deleted and the cell of the other site is
\* still stored
C25_Witness ==
    /\ tResponse = [op |-> "delete", status |-> 204, detail |-> ""]
    /\ Cardinality(tSites) = 1
    /\ tCells /= NoRows
    /\ \A row \in DOMAIN tCells : \E s \in tSites : s.id = row.site_id

\* a plan has replaced the tables and stored the cell of the last day
C25_PlanStored ==
    /\ tResponse.op = "import"
    /\ \E row \in DOMAIN tCells : row.day_index = 363 /\ row.value = "ok"


\* the stripped, non-blank names of a list of site names
C26_Names(site_names) ==
    {Strip(site_names[i]) : i \in 1..Len(site_names)} \ {""}

\* the place of the first occurrence of a name in a list of site names
C26_First(site_names, name) ==
    CHOOSE i \in 1..Len(site_names) :
        /\ Strip(site_names[i]) = name
        /\ \A j \in 1..(i - 1) : Strip(site_names[j]) /= name

\* C26: after any sequence of create_workload_site, rename_workload_site,
\* delete_workload_site and replace_workload_plan the stored site names are
\* pairwise distinct, trimmed and non-blank; a create or a rename that would
\* give a duplicate or a blank name fails and changes nothing; a replacement
\* keeps the first occurrence of each name and no other.
C26_SiteNamesDistinct ==
    /\ \A s \in tSites :
            /\ s.name /= ""
            /\ Strip(s.name) = s.name
            /\ \A t \in tSites : t.name = s.name => t = s
    /\ \A name \in SiteNames :
            (Strip(name) = "" \/ \E s \in tSites : s.name = Strip(name))
                => /\ create_workload_site(tSites, name).error /= ""
                   /\ create_workload_site(tSites, name).sites = tSites
    /\ \A site_id \in SiteIds, name \in SiteNames :
            (/\ \E s \in tSites : s.id = site_id
             /\ \/ Strip(name) = ""
                \/ \E s \in tSites : s.name = Strip(name) /\ s.id /= site_id)
                => /\ rename_workload_site(tSites, site_id, name).error /= ""
                   /\ rename_workload_site(tSites, site_id, name).sites = tSites
    /\ \A payload \in PlanPayloads :
            {[name |-> s.name, position |-> s.position] :
                s \in plan_sites(replace_workload_plan(
                        payload.sites, normalized_cells(payload.cells), 0, {}, <<>>))}
                = {[name |-> name, position |-> C26_First(payload.sites, name)] :
                        name \in C26_Names(payload.sites)}

\* a rename to the name of another site has been refused
C26_Witness ==
    /\ tResponse = [op |-> "rename", status |-> 400, detail |-> ERR_NAME_USED]
    /\ Cardinality(tSites) = 2

\* a create of the name of a stored site has been refused
C26_CreateRefused ==
    /\ tResponse = [op |-> "create", status |-> 400, detail |-> ERR_SITE_EXISTS]
    /\ tSites /= {}

\* a replacement has kept the first Lyon and dropped the second
C26_FirstOccurrenceKept ==
    /\ tResponse.op = "import"
    /\ {[name |-> s.name, position |-> s.position] : s \in tSites}
            = {[name |-> "Lyon", position |-> 1], [name |-> "Nice", position |-> 3]}


\* C27: two distinct stored sites never have the same position, after any
\* sequence of create_workload_site and replace_workload_plan calls, also when
\* two create requests are handled at once and their reads of the largest
\* position and their inserts interleave.
C27_PositionsDistinct ==
    \A s \in tSites : \A t \in tSites : s.position = t.position => s = t

----------------------------------------------------------------------------
(* Stored services (SubcontractedService): creation from a form, creation  *)
(* from the rows of an import, and the edit form                           *)

\* the largest number of stored services
MaxServices == 2

HTTP_SEE_OTHER == 303
HTTP_BAD_REQUEST == 400
HTTP_NOT_FOUND == 404

PONCTUELLE == "prestation_ponctuelle"

\* what the forms post. prestation_known: subcontracted_lookup.get(prestation)
\* (for an edit, also prestation == service.prestation_key); rest_valid: status
\* is in SUBCONTRACT_STATUS_OPTIONS and _parse_budget accepts the budget;
\* client_found: the client of client_id exists
ServiceForm(frequency, custom_interval, custom_unit, week, known, valid, found) ==
    [prestation_known |-> known, rest_valid |-> valid, client_found |-> found,
     frequency |-> frequency,
     custom_frequency_interval |-> custom_interval,
     custom_frequency_unit |-> custom_unit,
     realization_week |-> week]

\* (frequency, custom_frequency_interval, custom_frequency_unit) of the forms
FormFrequencyFields ==
    {<<PONCTUELLE, None, None>>,
     <<PONCTUELLE, Some("3"), Some("months")>>,
     <<"contrat_annuel", None, None>>,
     <<"contrat_annuel", Some("5"), Some("months")>>,
     <<"hebdomadaire", None, None>>,
     <<CUSTOM_INTERVAL_VALUE, Some("3"), Some("months")>>,
     <<CUSTOM_INTERVAL_VALUE, Some(" 007 "), Some("years")>>,
     <<CUSTOM_INTERVAL_VALUE, Some("120"), Some("years")>>,
     <<CUSTOM_INTERVAL_VALUE, Some("121"), Some("years")>>,
     <<CUSTOM_INTERVAL_VALUE, Some("0"), Some("months")>>,
     <<CUSTOM_INTERVAL_VALUE, Some("3"), Some("weeks")>>,
     <<CUSTOM_INTERVAL_VALUE, None, Some("months")>>,
     <<CUSTOM_INTERVAL_VALUE, Some("x"), None>>}

FormWeeks == {None, Some(""), Some(" s12 "), Some("S03"), Some("  ")}

ServiceForms ==
    {ServiceForm(f[1], f[2], f[3], w, TRUE, TRUE, TRUE) :
        f \in FormFrequencyFields, w \in FormWeeks}
    \cup {ServiceForm(PONCTUELLE, None, None, Some("s12"), FALSE, TRUE, TRUE),
          ServiceForm(PONCTUELLE, None, None, Some("s12"), TRUE, FALSE, TRUE),
          ServiceForm(PONCTUELLE, None, None, Some("s12"), TRUE, TRUE, FALSE)}

\* a record of parse_prestations_excel. resolved: _resolve_import_client_id and
\* _resolve_import_prestation_key find the client and the service of the row;
\* rest_valid: the status and the budget of the row are accepted
ServiceRow(frequency, interval, unit, week, resolved, valid) ==
    [resolved |-> resolved, rest_valid |-> valid,
     frequency |-> frequency, frequency_interval |-> interval,
     frequency_unit |-> unit, realization_week |-> week]

ServiceRows ==
    {ServiceRow(Some(PONCTUELLE), None, None, Some(" s07 "), TRUE, TRUE),
     ServiceRow(Some("contrat_mensuel"), Some(4), Some("years"), Some("s07"), TRUE, TRUE),
     ServiceRow(Some("interval:months:012"), Some(5), Some("years"), None, TRUE, TRUE),
     ServiceRow(Some("interval:weeks:2"), None, None, None, TRUE, TRUE),
     ServiceRow(Some(CUSTOM_INTERVAL_VALUE), Some(2), Some("years"), Some("s07"), TRUE, TRUE),
     ServiceRow(Some(CUSTOM_INTERVAL_VALUE), Some(121), Some("months"), None, TRUE, TRUE),
     ServiceRow(None, None, None, Some("s07"), TRUE, TRUE),
     ServiceRow(Some(PONCTUELLE), None, None, Some("s07"), FALSE, TRUE),
     ServiceRow(Some(PONCTUELLE), None, None, Some("s07"), TRUE, FALSE)}

ServiceImports ==
    {<<>>} \cup {<<r>> : r \in ServiceRows}
    \cup {<<r1, r2>> : r1 \in ServiceRows, r2 \in {r \in ServiceRows : r.resolved}}

\* raise HTTPException(status, ...)
ServiceFailure(status) == [status |-> status, service |-> None]

\* mutant: the realization week of the form is kept whatever the frequency is
_create_subcontracted_service_from_form_week_kept(form) ==
    LET resolved == _resolve_frequency(form.frequency,
                                       form.custom_frequency_interval,
                                       form.custom_frequency_unit)
    IN  IF ~form.prestation_known THEN ServiceFailure(HTTP_BAD_REQUEST)
        ELSE IF resolved.error /= "" THEN ServiceFailure(HTTP_BAD_REQUEST)
        ELSE IF ~form.rest_valid THEN ServiceFailure(HTTP_BAD_REQUEST)
        ELSE IF ~form.client_found THEN ServiceFailure(HTTP_NOT_FOUND)
        ELSE [status |-> HTTP_SEE_OTHER,
              service |-> Some(
                [frequency |-> resolved.token,
                 frequency_interval |-> resolved.interval,
                 frequency_unit |-> resolved.unit,
                 realization_week |->
                    IF TruthyStr(form.realization_week)
                    THEN Some(Upper(Strip(form.realization_week[1])))
                    ELSE None])]

\* app._create_subcontracted_service_from_form with
\* crud.create_subcontracted_service: [status, service], the row inserted or
\* None with the status of the HTTPException raised
_create_subcontracted_service_from_form(form) ==
    LET resolved == _resolve_frequency(form.frequency,
                                       form.custom_frequency_interval,
                                       form.custom_frequency_unit)
    IN  IF ~form.prestation_known THEN ServiceFailure(HTTP_BAD_REQUEST)
        ELSE IF resolved.error /= "" THEN ServiceFailure(HTTP_BAD_REQUEST)
        ELSE IF ~form.rest_valid THEN ServiceFailure(HTTP_BAD_REQUEST)
        ELSE IF ~form.client_found THEN ServiceFailure(HTTP_NOT_FOUND)
        ELSE [status |-> HTTP_SEE_OTHER,
              service |-> Some(
                [frequency |-> resolved.token,
                 frequency_interval |-> resolved.interval,
                 frequency_unit |-> resolved.unit,
                 realization_week |->
                    IF TruthyStr(form.realization_week) /\ resolved.token = PONCTUELLE
                    THEN Some(Upper(Strip(form.realization_week[1])))
                    ELSE None])]

\* mutant: the fields of the payload that are None are left as they were
\* (model_dump(exclude_none=True))
crud_update_subcontracted_service_exclude_none(record, data) ==
    [key \in DOMAIN record |->
        IF key \in DOMAIN data /\ (key = "frequency" \/ data[key] /= None)
        THEN data[key] ELSE record[key]]

\* crud.update_subcontracted_service: data is the payload by the fields that
\* were set (model_dump(exclude_unset=True)); setattr for each of them
crud_update_subcontracted_service(record, data) ==
    [key \in DOMAIN record |->
        IF key \in DOMAIN data THEN data[key] ELSE record[key]]

\* app.update_subcontracted_service for a service that exists: [status,
\* service], the row after the edit; the payload sets every field
update_subcontracted_service(service, form) ==
    LET resolved == _resolve_frequency(form.frequency,
                                       form.custom_frequency_interval,
                                       form.custom_frequency_unit)
        realization_value ==
            IF resolved.token = PONCTUELLE /\ TruthyStr(form.realization_week)
            THEN Some(Upper(Strip(form.realization_week[1])))
            ELSE None
        update_payload ==
            [frequency |-> resolved.token,
             frequency_interval |-> resolved.interval,
             frequency_unit |-> resolved.unit,
             realization_week |-> realization_value]
    IN  IF ~form.client_found THEN ServiceFailure(HTTP_BAD_REQUEST)
        ELSE IF resolved.error /= "" THEN ServiceFailure(HTTP_BAD_REQUEST)
        ELSE IF ~form.prestation_known THEN ServiceFailure(HTTP_BAD_REQUEST)
        ELSE IF ~form.rest_valid THEN ServiceFailure(HTTP_BAD_REQUEST)
        ELSE [status |-> HTTP_SEE_OTHER,
              service |-> Some(crud_update_subcontracted_service(service,
                                                                 update_payload))]

\* one turn of the loop of import_subcontracted_services: what
\* _create_subcontracted_service_from_form is called with, and what it gives;
\* a ValueError and an HTTPException both end the turn with an error line
import_service_row(row) ==
    LET prepared == _prepare_import_frequency(row)
        realization_week ==
            IF row.realization_week /= None
            THEN Some(Upper(Strip(row.realization_week[1])))
            ELSE None
    IN  IF ~row.resolved THEN ServiceFailure(HTTP_BAD_REQUEST)
        ELSE IF prepared.error /= "" THEN ServiceFailure(HTTP_BAD_REQUEST)
        ELSE _create_subcontracted_service_from_form(
                ServiceForm(prepared.selection, prepared.interval, prepared.unit,
                            realization_week, TRUE, row.rest_valid, TRUE))

\* the loop of import_subcontracted_services over rows[k..]: each row created
\* is committed on its own
RECURSIVE import_service_rows(_, _, _)
import_service_rows(outcome, rows, k) ==
    IF k > Len(rows) THEN outcome
    ELSE import_service_rows(
            IF import_service_row(rows[k]).service = None
            THEN [outcome EXCEPT !.errors = @ + 1]
            ELSE [outcome EXCEPT
                    !.services = Append(@, import_service_row(rows[k]).service[1]),
                    !.created = @ + 1],
            rows, k + 1)

NoAnswer == [op |-> "none", status |-> 0, id |-> 0, created |-> 0, errors |-> 0]

ServicesIdle ==
    /\ vServices = <<>>
    /\ vResponse = NoAnswer

\* the table is empty when the database is created
InitServices == ServicesIdle

\* POST /prestations/new and POST /clients/{client_id}/prestations: a row gets
\* the next id; no row is deleted here, so the ids are 1..Len(vServices)
CreateServiceFromView ==
    \E form \in ServiceForms :
        /\ Len(vServices) < MaxServices
        /\ vServices' =
            IF _create_subcontracted_service_from_form(form).service = None
            THEN vServices
            ELSE Append(vServices,
                        _create_subcontracted_service_from_form(form).service[1])
        /\ vResponse' =
            [op |-> "create", created |-> 0, errors |-> 0,
             status |-> _create_subcontracted_service_from_form(form).status,
             id |-> IF _create_subcontracted_service_from_form(form).service = None
                    THEN 0 ELSE Len(vServices) + 1]

\* POST /prestations/import once parse_prestations_excel has returned rows
ImportServices ==
    \E rows \in ServiceImports :
        /\ Len(vServices) + Len(rows) <= MaxServices
        /\ vServices' =
            import_service_rows([services |-> vServices, created |-> 0, errors |-> 0],
                                rows, 1).services
        /\ vResponse' =
            [op |-> "import", status |-> HTTP_SEE_OTHER, id |-> 0,
             created |-> import_service_rows(
                            [services |-> vServices, created |-> 0, errors |-> 0],
                            rows, 1).created,
             errors |-> import_service_rows(
                            [services |-> vServices, created |-> 0, errors |-> 0],
                            rows, 1).errors]

\* POST /prestations/{service_id}/edit
UpdateService ==
    \E service_id \in 1..(MaxServices + 1), form \in ServiceForms :
        IF service_id \notin DOMAIN vServices
        THEN /\ vServices' = vServices
             /\ vResponse' = [op |-> "update", status |-> HTTP_NOT_FOUND,
                              id |-> service_id, created |-> 0, errors |-> 0]
        ELSE /\ vServices' =
                IF update_subcontracted_service(vServices[service_id], form).service = None
                THEN vServices
                ELSE [vServices EXCEPT ![service_id] =
                        update_subcontracted_service(@, form).service[1]]
             /\ vResponse' =
                [op |-> "update", id |-> service_id, created |-> 0, errors |-> 0,
                 status |-> update_subcontracted_service(vServices[service_id],
                                                         form).status]

----------------------------------------------------------------------------
(* Properties of the stored services *)

\* the frequency triple of a stored service is that of a catalog key
C29_CatalogTriple(service) ==
    /\ service.frequency \in DOMAIN PREDEFINED_FREQUENCIES
    /\ service.frequency_interval = PREDEFINED_FREQUENCIES[service.frequency].interval
    /\ service.frequency_unit = PREDEFINED_FREQUENCIES[service.frequency].unit

\* the frequency triple of a stored service is that of a custom interval
C29_CustomTriple(service) ==
    \E unit \in {"months", "years"}, n \in 1..120 :
        /\ service.frequency = "interval:" \o unit \o ":" \o ToString(n)
        /\ service.frequency_interval = Some(n)
        /\ service.frequency_unit = Some(unit)

\* C29: after any sequence of creations from a form, creations from an import
\* and edits, the frequency, interval and unit of every stored service agree:
\* the frequency is a catalog key and the interval and the unit are those of
\* the key, or the frequency is interval:<unit>:<n> with unit months or years
\* and n in 1..120, and the stored interval and unit are n and unit.
C29_FrequencyTripleConsistent ==
    \A service_id \in DOMAIN vServices :
        \/ C29_CatalogTriple(vServices[service_id])
        \/ C29_CustomTriple(vServices[service_id])

\* an imported custom token is stored next to a service that an edit has just
\* given a catalog key without interval
C29_Witness ==
    /\ Len(vServices) = 2
    /\ vServices[1].frequency = "interval:months:12"
    /\ vServices[1].frequency_interval = Some(12)
    /\ vResponse.op = "update" /\ vResponse.status = HTTP_SEE_OTHER
    /\ vResponse.id = 2
    /\ vServices[2].frequency = PONCTUELLE
    /\ vServices[2].frequency_interval = None

\* a custom interval posted with white space and leading zeros is stored
C29_FormCustomStored ==
    /\ vResponse.op = "create" /\ vResponse.status = HTTP_SEE_OTHER
    /\ vServices[vResponse.id].frequency = "interval:years:7"

\* what C30 asks of a stored row
C30_Stored(service) ==
    service.realization_week /= None =>
        /\ service.frequency = "prestation_ponctuelle"
        /\ LET week == service.realization_week[1] IN
            /\ \A i \in 1..Len(week) :
                \A j \in 1..Len(LowerLetters) : CharAt(week, i) /= CharAt(LowerLetters, j)
            /\ Len(week) > 0 =>
                CharAt(week, 1) \notin Whitespace /\ CharAt(week, Len(week)) \notin Whitespace

\* an accepted edit of a service that had a realization week, to a frequency
\* other than prestation_ponctuelle, leaves the service without one
C30_EditStep ==
    \A service_id \in DOMAIN vServices :
        (/\ vResponse'.op = "update"
         /\ vResponse'.id = service_id
         /\ vResponse'.status = HTTP_SEE_OTHER
         /\ vServices'[service_id].frequency /= "prestation_ponctuelle")
        => vServices'[service_id].realization_week = None

\* C30: after any sequence of creations from a form, creations from an import
\* and edits, a stored service has a realization week only when its frequency
\* is prestation_ponctuelle, an edit that gives the service another frequency
\* removes its realization week, and a stored week has no surrounding white
\* space and no lower-case letter.
C30_RealizationWeek ==
    /\ [](\A service_id \in DOMAIN vServices : C30_Stored(vServices[service_id]))
    /\ [][C30_EditStep]_vars

\* a one-time service with the week S12 has just been given a yearly contract
\* by an edit that posted a week too
C30_Witness ==
    /\ vResponse.op = "update" /\ vResponse.status = HTTP_SEE_OTHER
    /\ vResponse.id = 1
    /\ vServices[1].frequency = "contrat_annuel"
    /\ vServices[1].realization_week = None
    /\ Len(vServices) = 2
    /\ vServices[2].frequency = PONCTUELLE
    /\ vServices[2].realization_week = Some("S07")

\* a week posted in lower case between spaces is stored trimmed, in upper case
C30_WeekNormalized ==
    /\ vResponse.op = "create" /\ vResponse.status = HTTP_SEE_OTHER
    /\ vServices[vResponse.id].realization_week = Some("S12")

\* a week of white space only is stored as the empty string
C30_BlankWeekStored ==
    \E service_id \in DOMAIN vServices : vServices[service_id].realization_week = Some("")

----------------------------------------------------------------------------
(* Specifications *)

InitFrequencySpec == InitFrequency /\ WorkloadIdle /\ ImportIdle /\ PlanIdle /\ ReportsIdle /\ SitesIdle /\ ServicesIdle

NextFrequency ==
    \/ ParsePrestationRow /\ UNCHANGED <<wvars, ivars, pvars, rvars, tvars, vvars>>
    \/ PrepareImportFrequency /\ UNCHANGED <<wvars, ivars, pvars, rvars, tvars, vvars>>
    \/ ResolveFrequency /\ UNCHANGED <<wvars, ivars, pvars, rvars, tvars, vvars>>
    \/ ParseIntervalFrequency /\ UNCHANGED <<wvars, ivars, pvars, rvars, tvars, vvars>>
    \/ FrequencyLabel /\ UNCHANGED <<wvars, ivars, pvars, rvars, tvars, vvars>>

SpecFrequency == InitFrequencySpec /\ [][NextFrequency]_vars

InitWorkloadSpec == FrequencyIdle /\ InitWorkload /\ ImportIdle /\ PlanIdle /\ ReportsIdle /\ SitesIdle /\ ServicesIdle

NextWorkload ==
    \/ DecodeWorkloadCell /\ UNCHANGED <<fvars, ivars, pvars, rvars, tvars, vvars>>
    \/ ExportWorkloadCell /\ UNCHANGED <<fvars, ivars, pvars, rvars, tvars, vvars>>
    \/ RedecodeWorkloadCell /\ UNCHANGED <<fvars, ivars, pvars, rvars, tvars, vvars>>

SpecWorkload == InitWorkloadSpec /\ [][NextWorkload]_vars

InitImportSpec == FrequencyIdle /\ WorkloadIdle /\ InitImport /\ PlanIdle /\ ReportsIdle /\ SitesIdle /\ ServicesIdle

SpecImport == InitImportSpec /\ [][NextImport]_vars

InitPlanSpec == FrequencyIdle /\ WorkloadIdle /\ ImportIdle /\ InitPlan /\ ReportsIdle /\ SitesIdle /\ ServicesIdle

NextPlan ==
    \/ ReceivePlanFile /\ UNCHANGED <<fvars, wvars, ivars, rvars, tvars, vvars>>
    \/ ParsePlanRow /\ UNCHANGED <<fvars, wvars, ivars, rvars, tvars, vvars>>
    \/ PlanParserReturns /\ UNCHANGED <<fvars, wvars, ivars, rvars, tvars, vvars>>
    \/ ReplacePlan /\ UNCHANGED <<fvars, wvars, ivars, rvars, tvars, vvars>>

SpecPlan == InitPlanSpec /\ [][NextPlan]_vars

InitReportsSpec ==
    FrequencyIdle /\ WorkloadIdle /\ ImportIdle /\ PlanIdle /\ InitReports /\ SitesIdle
    /\ ServicesIdle

NextReports ==
    \/ StoreImportReport /\ UNCHANGED <<fvars, wvars, ivars, pvars, tvars, vvars>>
    \/ ConsumeImportReport /\ UNCHANGED <<fvars, wvars, ivars, pvars, tvars, vvars>>

SpecReports == InitReportsSpec /\ [][NextReports]_vars

InitSitesSpec ==
    FrequencyIdle /\ WorkloadIdle /\ ImportIdle /\ PlanIdle /\ ReportsIdle /\ InitSites
    /\ ServicesIdle

NextSites ==
    \/ CreateSite /\ UNCHANGED <<fvars, wvars, ivars, pvars, rvars, vvars>>
    \/ RenameSite /\ UNCHANGED <<fvars, wvars, ivars, pvars, rvars, vvars>>
    \/ DeleteSite /\ UNCHANGED <<fvars, wvars, ivars, pvars, rvars, vvars>>
    \/ UpdateCells /\ UNCHANGED <<fvars, wvars, ivars, pvars, rvars, vvars>>
    \/ ImportPlan /\ UNCHANGED <<fvars, wvars, ivars, pvars, rvars, vvars>>

SpecSites == InitSitesSpec /\ [][NextSites]_vars

NextSiteRace ==
    \/ \E r \in Requests : BeginCreateSite(r) /\ UNCHANGED <<fvars, wvars, ivars, pvars, rvars, vvars>>
    \/ \E r \in Requests : CommitCreateSite(r) /\ UNCHANGED <<fvars, wvars, ivars, pvars, rvars, vvars>>
    \/ ImportPlan /\ UNCHANGED <<fvars, wvars, ivars, pvars, rvars, vvars>>

SpecSiteRace == InitSitesSpec /\ [][NextSiteRace]_vars

InitServicesSpec ==
    FrequencyIdle /\ WorkloadIdle /\ ImportIdle /\ PlanIdle /\ ReportsIdle /\ SitesIdle
    /\ InitServices

NextServices ==
    \/ CreateServiceFromView /\ UNCHANGED <<fvars, wvars, ivars, pvars, rvars, tvars>>
    \/ ImportServices /\ UNCHANGED <<fvars, wvars, ivars, pvars, rvars, tvars>>
    \/ UpdateService /\ UNCHANGED <<fvars, wvars, ivars, pvars, rvars, tvars>>

SpecServices == InitServicesSpec /\ [][NextServices]_vars

====
